---------------------------- MODULE Spec2Model ----------------------------
(***************************************************************************)
(* A model of egoughnour/migrate: the DDL parser (internal/schema), the    *)
(* dialect transformer (internal/dialect) and the schema differ            *)
(* (internal/diff).                                                        *)
(*                                                                         *)
(* Text is modelled by TLA+ strings, read one character at a time with     *)
(* SubSeq, so that splitting, trimming, upper-casing and the regular       *)
(* expressions of the parser are computed as the Go code computes them.    *)
(* The alphabet is ASCII without the backtick, which a TLA+ string cannot  *)
(* hold; the cutset of strings.Trim therefore holds the two quotes only.   *)
(***************************************************************************)
EXTENDS Integers, Sequences, FiniteSets, TLC

(***************************************************************************)
(* Go's strings package and the character classes of Go's regexp (RE2).    *)
(* The operators recurse once per piece they cut (or by halves), never     *)
(* once per character, so that long texts stay within the evaluator's      *)
(* stack; each computes what the Go loop computes.                         *)
(***************************************************************************)
LowerLetters == "abcdefghijklmnopqrstuvwxyz"
UpperLetters == "ABCDEFGHIJKLMNOPQRSTUVWXYZ"
Digits == "0123456789"

CharsOf(s) == {SubSeq(s, i, i) : i \in 1..Len(s)}

UpperMap ==
  [c \in CharsOf(LowerLetters) |->
     LET i == CHOOSE k \in 1..26 : SubSeq(LowerLetters, k, k) = c
     IN  SubSeq(UpperLetters, i, i)]

WordChars == CharsOf(LowerLetters) \cup CharsOf(UpperLetters) \cup CharsOf(Digits) \cup {"_"}
DigitChars == CharsOf(Digits)
SpaceChars == {" ", "\t", "\n", "\r", "\f"}
QuoteChars == {"'", "\""}

\* s[i] of Go, 1-based; "" past the end.
At(s, i) == IF i >= 1 /\ i <= Len(s) THEN SubSeq(s, i, i) ELSE ""

\* s[i-1:] of Go for the 1-based position i.
From(s, i) == IF i > Len(s) THEN "" ELSE SubSeq(s, i, Len(s))

Min(S) == CHOOSE m \in S : \A k \in S : m <= k
Max(S) == 0 - Min({0 - k : k \in S})

\* The least (greatest) position in lo..hi that satisfies P, 0 if none.
LeastOf(S) == IF S = {} THEN 0 ELSE Min(S)
GreatestOf(S) == IF S = {} THEN 0 ELSE Max(S)

FirstIn(lo, hi, P(_)) == LeastOf({j \in lo..hi : P(j)})

LastIn(lo, hi, P(_)) == GreatestOf({j \in lo..hi : P(j)})

ToUpperCh(c) == IF c \in DOMAIN UpperMap THEN UpperMap[c] ELSE c

\* strings.ToUpper (ASCII), by halves.
RECURSIVE ToUpper(_)
ToUpper(s) ==
  IF Len(s) <= 1 THEN ToUpperCh(s)
  ELSE LET h == Len(s) \div 2
       IN  ToUpper(SubSeq(s, 1, h)) \o ToUpper(SubSeq(s, h + 1, Len(s)))

EqualFold(a, b) == ToUpper(a) = ToUpper(b)

HasPrefix(s, p) == Len(s) >= Len(p) /\ SubSeq(s, 1, Len(p)) = p

\* p occurs in s at the 1-based position i.
OccursAt(s, p, i) == i >= 1 /\ i + Len(p) - 1 <= Len(s) /\ SubSeq(s, i, i + Len(p) - 1) = p

Contains(s, p) == \E i \in 1..(Len(s) + 1) : OccursAt(s, p, i)

\* The first occurrence of p in s at or after i, 0 if none.
IndexFrom(s, p, i) == LET Hit(j) == OccursAt(s, p, j) IN FirstIn(i, Len(s), Hit)

\* strings.Index and strings.LastIndex, 1-based, 0 for Go's -1.
Index(s, p) == IndexFrom(s, p, 1)

LastIndex(s, p) == LET Hit(j) == OccursAt(s, p, j) IN LastIn(1, Len(s), Hit)

\* The first position at or after i whose character is not in cs (Len(s)+1 if none).
SkipWhile(s, i, cs) ==
  LET Stop(j) == At(s, j) \notin cs
      Pos(j) == IF j # 0 THEN j ELSE IF i > Len(s) THEN i ELSE Len(s) + 1
  IN  Pos(FirstIn(i, Len(s), Stop))

\* The first position at or after i whose character is in cs (Len(s)+1 if none).
SkipUntil(s, i, cs) ==
  LET Stop(j) == At(s, j) \in cs
      Pos(j) == IF j # 0 THEN j ELSE IF i > Len(s) THEN i ELSE Len(s) + 1
  IN  Pos(FirstIn(i, Len(s), Stop))

\* The last position at or before i whose character is not in cs (0 if none).
SkipBack(s, i, cs) == LET Stop(j) == At(s, j) \notin cs IN LastIn(1, i, Stop)

\* strings.Trim(s, cutset) for a cutset given as a set of characters.
Trim(s, cs) ==
  LET Cut(a, b) == IF a > b THEN "" ELSE SubSeq(s, a, b)
  IN  Cut(SkipWhile(s, 1, cs), SkipBack(s, Len(s), cs))

TrimSpace(s) == Trim(s, SpaceChars)

\* strings.Split(s, sep) for a one-character sep: always at least one piece.
RECURSIVE SplitFrom(_, _, _)
SplitFrom(s, sep, i) ==
  LET Cut(j) == IF j = 0 THEN <<From(s, i)>>
                ELSE <<SubSeq(s, i, j - 1)>> \o SplitFrom(s, sep, j + 1)
  IN  Cut(IndexFrom(s, sep, i))

Split(s, sep) == SplitFrom(s, sep, 1)

\* strings.Fields: the maximal runs of non-space characters.
RECURSIVE FieldsFrom(_, _)
FieldsFrom(s, i) ==
  LET Cut(a, b) == IF a > Len(s) THEN <<>> ELSE <<SubSeq(s, a, b - 1)>> \o FieldsFrom(s, b)
      Field(a) == Cut(a, SkipUntil(s, a, SpaceChars))
  IN  Field(SkipWhile(s, i, SpaceChars))

Fields(s) == FieldsFrom(s, 1)

\* strings.Join.
RECURSIVE Join(_, _)
Join(parts, sep) ==
  IF Len(parts) = 0 THEN ""
  ELSE IF Len(parts) = 1 THEN parts[1]
  ELSE parts[1] \o sep \o Join(Tail(parts), sep)

\* \s+ and \w+ at position i: the position after the longest run, 0 if the run is empty.
RunEnd(i, j) == IF i >= 1 /\ j > i THEN j ELSE 0
SpacesAt(s, i) == RunEnd(i, SkipWhile(s, i, SpaceChars))
WordAt(s, i) == RunEnd(i, SkipWhile(s, i, WordChars))

\* A text with its upper-cased copy: a literal under the (?i) flag matches the
\* text where the upper-case literal occurs in the copy (positions are the same).
Text(s) == [s |-> s, u |-> ToUpper(s)]

\* A case-insensitive keyword at i: the position after it, 0 if no match.
KeywordAt(t, kw, i) == IF OccursAt(t.u, kw, i) THEN i + Len(kw) ELSE 0

\* A case-insensitive keyword followed by \s+ : the position after, 0 if no match.
KeywordSpaces(t, kw, i) == IF OccursAt(t.u, kw, i) THEN SpacesAt(t.s, i + Len(kw)) ELSE 0

(***************************************************************************)
(* The schema model (internal/schema): an optional value (a Go pointer     *)
(* that may be nil) is a sequence of length 0 or 1.                        *)
(***************************************************************************)
Nil == <<>>
Some(v) == <<v>>

EmptySchema == [Tables |-> <<>>, Indexes |-> <<>>, Views |-> <<>>]

NewTable ==
  [Name |-> "", Schema |-> "", Columns |-> <<>>, PrimaryKey |-> Nil,
   ForeignKeys |-> <<>>, Indexes |-> <<>>, Constraints |-> <<>>]

NewColumn(name, type) ==
  [Name |-> name, Type |-> type, Nullable |-> TRUE, Default |-> Nil,
   IsPrimaryKey |-> FALSE, IsUnique |-> FALSE, IsIdentity |-> FALSE, Comment |-> ""]

NewPrimaryKey == [Name |-> "", Columns |-> <<>>]

NewForeignKey ==
  [Name |-> "", Columns |-> <<>>, ReferencedTable |-> "", ReferencedSchema |-> "",
   ReferencedCols |-> <<>>, OnDelete |-> "", OnUpdate |-> ""]

NewIndex ==
  [Name |-> "", Table |-> "", Schema |-> "", Columns |-> <<>>,
   IsUnique |-> FALSE, IsPrimary |-> FALSE, Type |-> ""]

NewConstraint(type) == [Name |-> "", Type |-> type, Columns |-> <<>>, Expression |-> ""]

NewView == [Name |-> "", Schema |-> "", Definition |-> ""]

(***************************************************************************)
(* normalizeSQL of the parser: strip -- comments, strip block comments,    *)
(* collapse white space, trim.                                             *)
(***************************************************************************)
\* regexp `--[^\n]*` replaced by "": from each leftmost "--" to the end of its line.
RECURSIVE stripLineComments(_, _)
stripLineComments(s, i) ==
  LET Cut(j) == IF j = 0 THEN From(s, i)
                ELSE SubSeq(s, i, j - 1) \o stripLineComments(s, SkipUntil(s, j + 2, {"\n"}))
  IN  Cut(IndexFrom(s, "--", i))

\* regexp `/\*[\s\S]*?\*/` replaced by "": from each leftmost "/*" to the first
\* "*/" after it; an opening with no closing stays.
RECURSIVE stripBlockComments(_, _)
stripBlockComments(s, i) ==
  LET Cut(j, c) == IF c = 0 THEN From(s, i)
                   ELSE SubSeq(s, i, j - 1) \o stripBlockComments(s, c + 2)
      Open(j) == Cut(j, IF j = 0 THEN 0 ELSE IndexFrom(s, "*/", j + 2))
  IN  Open(IndexFrom(s, "/*", i))

\* regexp `\s+` replaced by " ", over the positions lo..hi (by halves): a
\* white-space character is kept, as a space, where it starts a run.
RECURSIVE collapseSpaces(_, _, _)
collapseSpaces(s, lo, hi) ==
  IF lo > hi THEN ""
  ELSE IF lo = hi
  THEN IF At(s, lo) \notin SpaceChars THEN At(s, lo)
       ELSE IF At(s, lo - 1) \in SpaceChars THEN "" ELSE " "
  ELSE LET h == (lo + hi) \div 2
       IN  collapseSpaces(s, lo, h) \o collapseSpaces(s, h + 1, hi)

normalizeSQL(sql) ==
  LET Collapse(b) == TrimSpace(collapseSpaces(b, 1, Len(b)))
  IN  Collapse(stripBlockComments(stripLineComments(sql, 1), 1))

(***************************************************************************)
(* splitStatements: one in-literal flag and the active quote character.    *)
(* Outside a literal the scan runs to the next quote or ";"; a quote opens *)
(* a literal that runs to the next occurrence of the same quote character  *)
(* (or to the end of the text); a ";" outside a literal ends the           *)
(* statement.                                                              *)
(***************************************************************************)
\* splitStatements where either quote character closes a literal.
RECURSIVE splitStatementsOfAnyQuote(_, _, _, _)
splitStatementsOfAnyQuote(sql, i, current, statements) ==
  LET rest == current \o From(sql, i)
      Literal(k) ==
        IF k > Len(sql) THEN Append(statements, rest)
        ELSE splitStatementsOfAnyQuote(sql, k + 1, current \o SubSeq(sql, i, k), statements)
      Stop(j, stringChar) ==
        IF j > Len(sql)
        THEN IF Len(rest) > 0 THEN Append(statements, rest) ELSE statements
        ELSE IF stringChar = ";"
        THEN splitStatementsOfAnyQuote(sql, j + 1, "",
                                       Append(statements, current \o SubSeq(sql, i, j - 1)))
        ELSE Literal(SkipUntil(sql, j + 1, QuoteChars))
      Scan(j) == Stop(j, At(sql, j))
  IN  Scan(SkipUntil(sql, i, QuoteChars \cup {";"}))

RECURSIVE splitStatementsFrom(_, _, _, _)
splitStatementsFrom(sql, i, current, statements) ==
  LET rest == current \o From(sql, i)
      Literal(k) ==
        IF k = 0 THEN Append(statements, rest)
        ELSE splitStatementsFrom(sql, k + 1, current \o SubSeq(sql, i, k), statements)
      Stop(j, stringChar) ==
        IF j > Len(sql)
        THEN IF Len(rest) > 0 THEN Append(statements, rest) ELSE statements
        ELSE IF stringChar = ";"
        THEN splitStatementsFrom(sql, j + 1, "",
                                 Append(statements, current \o SubSeq(sql, i, j - 1)))
        ELSE Literal(IndexFrom(sql, stringChar, j + 1))
      Scan(j) == Stop(j, At(sql, j))
  IN  Scan(SkipUntil(sql, i, QuoteChars \cup {";"}))

splitStatements(sql) == splitStatementsFrom(sql, 1, "", <<>>)

(***************************************************************************)
(* splitColumnDefs: a comma cuts only at paren depth 0 (the depth may go   *)
(* below 0 on unbalanced text).  The scan runs from one of "(", ")", ","   *)
(* to the next.                                                            *)
(***************************************************************************)
\* splitColumnDefs where every comma cuts, whatever the depth.
RECURSIVE splitColumnDefsAtEveryComma(_, _, _, _, _)
splitColumnDefsAtEveryComma(body, i, parenDepth, current, defs) ==
  LET rest == current \o From(body, i)
      Stop(j) ==
        IF j > Len(body)
        THEN IF Len(rest) > 0 THEN Append(defs, rest) ELSE defs
        ELSE splitColumnDefsAtEveryComma(body, j + 1, parenDepth, "",
                                         Append(defs, current \o SubSeq(body, i, j - 1)))
  IN  Stop(SkipUntil(body, i, {","}))

RECURSIVE splitColumnDefsFrom(_, _, _, _, _)
splitColumnDefsFrom(body, i, parenDepth, current, defs) ==
  LET rest == current \o From(body, i)
      Step(j, depth, cur, ds) ==
        IF j > Len(body)
        THEN IF Len(rest) > 0 THEN Append(defs, rest) ELSE defs
        ELSE splitColumnDefsFrom(body, j + 1, depth, cur, ds)
      Stop(j, ch, upto) ==
        IF ch = "(" THEN Step(j, parenDepth + 1, upto, defs)
        ELSE IF ch = ")" THEN Step(j, parenDepth - 1, upto, defs)
        ELSE IF parenDepth = 0
        THEN Step(j, parenDepth, "", Append(defs, current \o SubSeq(body, i, j - 1)))
        ELSE Step(j, parenDepth, upto, defs)
      Scan(j) == Stop(j, At(body, j), current \o SubSeq(body, i, Min({j, Len(body)})))
  IN  Scan(SkipUntil(body, i, {"(", ")", ","}))

splitColumnDefs(body) == splitColumnDefsFrom(body, 1, 0, "", <<>>)

(***************************************************************************)
(* The regular expressions of the parser.  Each operator computes the      *)
(* leftmost match with RE2's preferences: a greedy item takes its longest  *)
(* run, an optional group is tried first with the group and then without.  *)
(* A pattern at a position gives its matches in order of preference (a     *)
(* sequence, empty if it does not match there); a match is a record with   *)
(* ok = TRUE and the captured groups.  The patterns take a Text t.         *)
(***************************************************************************)
NoMatch == [ok |-> FALSE]

\* `["']?(\w+)["']?` at p.
quotedNameAt(t, p) ==
  LET Name(q, e) ==
        IF e = 0 THEN <<>>
        ELSE <<[ok |-> TRUE, schema |-> "", name |-> SubSeq(t.s, q, e - 1),
                end |-> IF At(t.s, e) \in QuoteChars THEN e + 1 ELSE e]>>
      Word(q) == Name(q, WordAt(t.s, q))
  IN  Word(IF At(t.s, p) \in QuoteChars THEN p + 1 ELSE p)

\* `(?:(\w+)\.)?["']?(\w+)["']?` at p.
qualifiedNameAt(t, p) ==
  LET WithSchema(e, inner) ==
        IF e # 0 /\ At(t.s, e) = "."
        THEN [k \in 1..Len(inner) |-> [inner[k] EXCEPT !.schema = SubSeq(t.s, p, e - 1)]]
        ELSE <<>>
      Qualified(e) == WithSchema(e, quotedNameAt(t, e + 1))
  IN  Qualified(WordAt(t.s, p)) \o quotedNameAt(t, p)

\* A chain of case-insensitive keywords, each followed by \s+, from p: the end, 0 if no match.
RECURSIVE keywordsAt(_, _, _)
keywordsAt(t, kws, p) ==
  IF p = 0 THEN 0
  ELSE IF Len(kws) = 0 THEN p
  ELSE keywordsAt(t, Tail(kws), KeywordSpaces(t, Head(kws), p))

\* The matches of a name pattern after each of the given keyword chains, in order.
RECURSIVE afterPrefixes(_, _, _, _)
afterPrefixes(t, p, prefixes, qualified) ==
  IF Len(prefixes) = 0 THEN <<>>
  ELSE LET Here(q) == IF q = 0 THEN <<>>
                      ELSE IF qualified THEN qualifiedNameAt(t, q) ELSE quotedNameAt(t, q)
       IN  Here(keywordsAt(t, Head(prefixes), p)) \o afterPrefixes(t, p, Tail(prefixes), qualified)

\* The first match of a pattern over all start positions (FindStringSubmatch).
firstOf(t, matchAt(_, _)) ==
  LET First(ms, i) == IF i = 0 THEN NoMatch ELSE ms[i][1]
      Pick(ms) == LET Hit(i) == Len(ms[i]) > 0 IN First(ms, FirstIn(1, Len(ms), Hit))
  IN  Pick([i \in 1..Len(t.s) |-> matchAt(t, i)])

\* (?i)CREATE\s+TABLE\s+(?:IF\s+NOT\s+EXISTS\s+)?(?:(\w+)\.)?["']?(\w+)["']?
tableNameReAt(t, i) ==
  IF ~OccursAt(t.u, "CREATE", i) THEN <<>>
  ELSE afterPrefixes(t, i, << <<"CREATE", "TABLE", "IF", "NOT", "EXISTS">>,
                              <<"CREATE", "TABLE">> >>, TRUE)

\* (?i)CREATE\s+(?:UNIQUE\s+)?INDEX\s+(?:IF\s+NOT\s+EXISTS\s+)?(?:CONCURRENTLY\s+)?["']?(\w+)["']?
indexNameReAt(t, i) ==
  IF ~OccursAt(t.u, "CREATE", i) THEN <<>>
  ELSE afterPrefixes(t, i,
         << <<"CREATE", "UNIQUE", "INDEX", "IF", "NOT", "EXISTS", "CONCURRENTLY">>,
            <<"CREATE", "UNIQUE", "INDEX", "IF", "NOT", "EXISTS">>,
            <<"CREATE", "UNIQUE", "INDEX", "CONCURRENTLY">>,
            <<"CREATE", "UNIQUE", "INDEX">>,
            <<"CREATE", "INDEX", "IF", "NOT", "EXISTS", "CONCURRENTLY">>,
            <<"CREATE", "INDEX", "IF", "NOT", "EXISTS">>,
            <<"CREATE", "INDEX", "CONCURRENTLY">>,
            <<"CREATE", "INDEX">> >>, FALSE)

\* (?i)ON\s+(?:(\w+)\.)?["']?(\w+)["']?
indexTableReAt(t, i) == afterPrefixes(t, i, << <<"ON">> >>, TRUE)

\* (?i)CREATE\s+(?:OR\s+REPLACE\s+)?VIEW\s+(?:(\w+)\.)?["']?(\w+)["']?
viewNameReAt(t, i) ==
  IF ~OccursAt(t.u, "CREATE", i) THEN <<>>
  ELSE afterPrefixes(t, i, << <<"CREATE", "OR", "REPLACE", "VIEW">>,
                              <<"CREATE", "VIEW">> >>, TRUE)

\* (?i)CONSTRAINT\s+["']?(\w+)["']?
constraintNameReAt(t, i) == afterPrefixes(t, i, << <<"CONSTRAINT">> >>, FALSE)

\* `\(([^)]+)\)` with its "(" at p: the group, and the position after the ")".
parenGroupAt(t, p) ==
  LET Group(j) ==
        IF At(t.s, p) = "(" /\ j > p + 1 /\ At(t.s, j) = ")"
        THEN <<[ok |-> TRUE, group |-> SubSeq(t.s, p + 1, j - 1), end |-> j + 1]>>
        ELSE <<>>
  IN  Group(SkipUntil(t.s, p + 1, {")"}))

\* \(([^)]+)\)
colsReAt(t, i) == parenGroupAt(t, i)

\* (?i)FOREIGN\s+KEY\s*\(([^)]+)\)
localReAt(t, i) ==
  LET Key(a, b) ==
        IF a # 0 /\ b # 0 THEN parenGroupAt(t, SkipWhile(t.s, b, SpaceChars)) ELSE <<>>
      Foreign(a) == Key(a, KeywordAt(t, "KEY", a))
  IN  Foreign(KeywordSpaces(t, "FOREIGN", i))

\* (?i)REFERENCES\s+(?:(\w+)\.)?["']?(\w+)["']?\s*\(([^)]+)\) : the first name
\* alternative after which the column list matches.
RECURSIVE refTail(_, _)
refTail(t, names) ==
  IF Len(names) = 0 THEN <<>>
  ELSE LET Cols(g) ==
             IF Len(g) > 0
             THEN <<[ok |-> TRUE, schema |-> Head(names).schema, name |-> Head(names).name,
                     group |-> g[1].group]>>
             ELSE refTail(t, Tail(names))
       IN  Cols(parenGroupAt(t, SkipWhile(t.s, Head(names).end, SpaceChars)))

refReAt(t, i) ==
  LET Name(a) == IF a = 0 THEN <<>> ELSE refTail(t, qualifiedNameAt(t, a))
  IN  Name(KeywordSpaces(t, "REFERENCES", i))

\* (?i)CHECK\s*\((.+)\) : the greedy group runs to the last ")" of the line.
checkReAt(t, i) ==
  LET Close(j) == At(t.s, j) = ")"
      Group(a, b, c) ==
        IF a # 0 /\ At(t.s, b) = "(" /\ c # 0
        THEN <<[ok |-> TRUE, group |-> SubSeq(t.s, b + 1, c - 1)]>>
        ELSE <<>>
      Line(a, b, eol) == Group(a, b, LastIn(b + 2, eol - 1, Close))
      Open(a, b) == Line(a, b, SkipUntil(t.s, b + 1, {"\n"}))
      Check(a) == Open(a, SkipWhile(t.s, a, SpaceChars))
  IN  Check(KeywordAt(t, "CHECK", i))

\* The end of the DEFAULT value at p:
\* (?:\s+(?:NOT\s+)?NULL|\s+PRIMARY|\s+UNIQUE|\s+CHECK|\s+REFERENCES|,|$)
defaultEndsAt(t, p) ==
  \/ p = Len(t.s) + 1
  \/ At(t.s, p) = ","
  \/ \E sp \in {SpacesAt(t.s, p)} :
        /\ sp # 0
        /\ \/ OccursAt(t.u, "NULL", sp)
           \/ OccursAt(t.u, "NULL", KeywordSpaces(t, "NOT", sp))
           \/ \E kw \in {"PRIMARY", "UNIQUE", "CHECK", "REFERENCES"} : OccursAt(t.u, kw, sp)

\* (?i)DEFAULT\s+(.+?)(?:...) : the lazy group is the shortest non-empty text of the
\* line that is followed by an end.  The text given is trimmed, so the run of \s+ is
\* never the end of the text and is taken whole.
defaultReAt(t, i) ==
  LET End(p) == defaultEndsAt(t, p)
      Group(b, e) ==
        IF b # 0 /\ e # 0
        THEN <<[ok |-> TRUE, group |-> SubSeq(t.s, b, e - 1)]>>
        ELSE <<>>
      Value(b) == Group(b, IF b = 0 THEN 0 ELSE FirstIn(b + 1, SkipUntil(t.s, b, {"\n"}), End))
  IN  Value(KeywordSpaces(t, "DEFAULT", i))

\* (?i)\sAS\s : the position after the leftmost match, 0 if none.
asReEnd(t) ==
  LET Hit(i) == /\ At(t.s, i) \in SpaceChars
                /\ OccursAt(t.u, "AS", i + 1)
                /\ At(t.s, i + 3) \in SpaceChars
      End(i) == IF i = 0 THEN 0 ELSE i + 4
  IN  End(FirstIn(1, Len(t.s), Hit))

\* (?i)\s+(ASC|DESC)$ replaced by "".
stripAscDesc(c) ==
  LET n == Len(c)
      Cut(k, b) == IF k # 0 /\ b < k - 1 THEN SubSeq(c, 1, b) ELSE c
      Word(k) == Cut(k, IF k = 0 THEN 0 ELSE SkipBack(c, k - 1, SpaceChars))
      Upper(u) == Word(IF OccursAt(u, "DESC", n - 3) THEN n - 3
                       ELSE IF OccursAt(u, "ASC", n - 2) THEN n - 2
                       ELSE 0)
  IN  Upper(ToUpper(c))

\* The pieces of a column list, each with its quotes and then its spaces trimmed.
RECURSIVE trimEach(_)
trimEach(cols) ==
  IF Len(cols) = 0 THEN <<>>
  ELSE <<TrimSpace(Trim(Head(cols), QuoteChars))>> \o trimEach(Tail(cols))

columnList(group) == trimEach(Split(group, ","))

(***************************************************************************)
(* The parser (internal/schema/parser.go).                                 *)
(***************************************************************************)
\* parseColumnDef: Nil for Go's nil (fewer than two fields).
columnOf(parts, upper, isPK, m) ==
  IF Len(parts) < 2 THEN Nil
  ELSE Some([NewColumn(Trim(parts[1], QuoteChars), parts[2]) EXCEPT
               !.Nullable = ~Contains(upper, "NOT NULL") /\ ~isPK,
               !.IsPrimaryKey = isPK,
               !.IsUnique = Contains(upper, "UNIQUE"),
               !.IsIdentity = \E kw \in {"SERIAL", "AUTO_INCREMENT", "IDENTITY",
                                          "AUTOINCREMENT"} : Contains(upper, kw),
               !.Default = IF m.ok THEN Some(TrimSpace(m.group)) ELSE Nil])

columnOfText(parts, t) ==
  columnOf(parts, t.u, Contains(t.u, "PRIMARY KEY"), firstOf(t, defaultReAt))

parseColumnDef(def) == columnOfText(Fields(def), Text(def))

\* The column list captured by a match of a `\(([^)]+)\)` group, empty if no match.
matchedColumns(m) == IF m.ok THEN columnList(m.group) ELSE <<>>

parsePrimaryKeyConstraint(def) ==
  [NewPrimaryKey EXCEPT !.Columns = matchedColumns(firstOf(Text(def), colsReAt))]

foreignKeyOf(upper, l, r) ==
  [NewForeignKey EXCEPT
     !.Columns = matchedColumns(l),
     !.ReferencedSchema = IF r.ok THEN r.schema ELSE "",
     !.ReferencedTable = IF r.ok THEN r.name ELSE "",
     !.ReferencedCols = matchedColumns(r),
     !.OnDelete = IF Contains(upper, "ON DELETE CASCADE") THEN "CASCADE"
                  ELSE IF Contains(upper, "ON DELETE SET NULL") THEN "SET NULL"
                  ELSE "",
     !.OnUpdate = IF Contains(upper, "ON UPDATE CASCADE") THEN "CASCADE" ELSE ""]

foreignKeyOfText(t) == foreignKeyOf(t.u, firstOf(t, localReAt), firstOf(t, refReAt))

parseForeignKeyConstraint(def) == foreignKeyOfText(Text(def))

parseUniqueConstraint(def) ==
  [NewConstraint("UNIQUE") EXCEPT !.Columns = matchedColumns(firstOf(Text(def), colsReAt))]

\* The text captured by a match of the CHECK pattern, "" if no match.
matchedExpression(m) == IF m.ok THEN m.group ELSE ""

parseCheckConstraint(def) ==
  [NewConstraint("CHECK") EXCEPT !.Expression = matchedExpression(firstOf(Text(def), checkReAt))]

\* parseNamedConstraint: the table after the member is applied.
namedConstraintOf(def, table, upper, name) ==
  IF Contains(upper, "PRIMARY KEY")
  THEN [table EXCEPT !.PrimaryKey =
          Some([parsePrimaryKeyConstraint(def) EXCEPT !.Name = name])]
  ELSE IF Contains(upper, "FOREIGN KEY")
  THEN [table EXCEPT !.ForeignKeys =
          Append(@, [parseForeignKeyConstraint(def) EXCEPT !.Name = name])]
  ELSE IF Contains(upper, "UNIQUE")
  THEN [table EXCEPT !.Constraints =
          Append(@, [parseUniqueConstraint(def) EXCEPT !.Name = name])]
  ELSE IF Contains(upper, "CHECK")
  THEN [table EXCEPT !.Constraints =
          Append(@, [parseCheckConstraint(def) EXCEPT !.Name = name])]
  ELSE table

\* The name captured by a match of a name pattern, "" if no match.
matchedName(m) == IF m.ok THEN m.name ELSE ""

\* The schema captured by a match of a qualified-name pattern, "" if no match.
matchedSchema(m) == IF m.ok THEN m.schema ELSE ""

namedConstraintOfText(def, table, t) ==
  namedConstraintOf(def, table, t.u, matchedName(firstOf(t, constraintNameReAt)))

parseNamedConstraint(def, table) == namedConstraintOfText(def, table, Text(def))

\* One member of a table body (the body of the loop of parseCreateTable).
addColumn(table, col) ==
  IF col = Nil THEN table ELSE [table EXCEPT !.Columns = Append(@, col[1])]

memberOf(def, upper, table) ==
  IF def = "" THEN table
  ELSE IF HasPrefix(upper, "PRIMARY KEY")
  THEN [table EXCEPT !.PrimaryKey = Some(parsePrimaryKeyConstraint(def))]
  ELSE IF HasPrefix(upper, "FOREIGN KEY")
  THEN [table EXCEPT !.ForeignKeys = Append(@, parseForeignKeyConstraint(def))]
  ELSE IF HasPrefix(upper, "UNIQUE")
  THEN [table EXCEPT !.Constraints = Append(@, parseUniqueConstraint(def))]
  ELSE IF HasPrefix(upper, "CHECK")
  THEN [table EXCEPT !.Constraints = Append(@, parseCheckConstraint(def))]
  ELSE IF HasPrefix(upper, "CONSTRAINT")
  THEN parseNamedConstraint(def, table)
  ELSE addColumn(table, parseColumnDef(def))

trimmedMember(def, table) == memberOf(def, ToUpper(def), table)

parseMember(rawDef, table) == trimmedMember(TrimSpace(rawDef), table)

RECURSIVE parseMembers(_, _)
parseMembers(definitions, table) ==
  IF Len(definitions) = 0 THEN table
  ELSE parseMembers(Tail(definitions), parseMember(Head(definitions), table))

\* stmt[parenStart+1 : parenEnd] of Go: a run-time panic when the low bound
\* exceeds the high bound (positions are 1-based here: the body is
\* parenStart+1 .. parenEnd-1).
sliceBody(stmt, parenStart, parenEnd) ==
  IF parenStart + 1 > parenEnd
  THEN [panic |-> TRUE, body |-> ""]
  ELSE [panic |-> FALSE, body |-> SubSeq(stmt, parenStart + 1, parenEnd - 1)]

\* parseCreateTable: [panic, err, table].  The Go function has no path that
\* returns a non-nil error.
tableBody(named, parenStart, parenEnd, sl) ==
  IF parenStart = 0 \/ parenEnd = 0
  THEN [panic |-> FALSE, err |-> FALSE, table |-> named]
  ELSE IF sl.panic
  THEN [panic |-> TRUE, err |-> FALSE, table |-> named]
  ELSE [panic |-> FALSE, err |-> FALSE,
        table |-> parseMembers(splitColumnDefs(sl.body), named)]

tableParens(stmt, named, parenStart, parenEnd) ==
  tableBody(named, parenStart, parenEnd, sliceBody(stmt, parenStart, parenEnd))

\* table := &Table{}; the name and the schema where tableNameRe matches.
namedTable(m) ==
  [NewTable EXCEPT !.Schema = matchedSchema(m), !.Name = matchedName(m)]

parseCreateTable(stmt) ==
  tableParens(stmt, namedTable(firstOf(Text(stmt), tableNameReAt)),
              Index(stmt, "("), LastIndex(stmt, ")"))

\* The columns of a CREATE INDEX: trimmed, ASC/DESC stripped, quotes trimmed.
RECURSIVE indexColumns(_)
indexColumns(cols) ==
  IF Len(cols) = 0 THEN <<>>
  ELSE <<Trim(stripAscDesc(TrimSpace(Head(cols))), QuoteChars)>> \o indexColumns(Tail(cols))

\* parseCreateIndex: [err, idx]; the error is always nil.
indexOf(upper, n, t, c) ==
  [err |-> FALSE,
   idx |-> [NewIndex EXCEPT
              !.IsUnique = Contains(upper, "UNIQUE"),
              !.Name = matchedName(n),
              !.Schema = matchedSchema(t),
              !.Table = matchedName(t),
              !.Columns = IF c.ok THEN indexColumns(Split(c.group, ",")) ELSE <<>>]]

indexOfText(tx) ==
  indexOf(tx.u, firstOf(tx, indexNameReAt), firstOf(tx, indexTableReAt), firstOf(tx, colsReAt))

parseCreateIndex(stmt) == indexOfText(Text(stmt))

\* parseCreateView: [err, view]; the error is always nil.
viewOf(stmt, n, asEnd) ==
  [err |-> FALSE,
   view |-> [NewView EXCEPT
               !.Schema = matchedSchema(n),
               !.Name = matchedName(n),
               !.Definition = IF asEnd # 0 THEN TrimSpace(From(stmt, asEnd)) ELSE ""]]

viewOfText(stmt, tx) == viewOf(stmt, firstOf(tx, viewNameReAt), asReEnd(tx))

parseCreateView(stmt) == viewOfText(stmt, Text(stmt))

\* The kind of a (trimmed) statement, from its upper-cased prefix.
kindOf(upper) ==
  IF HasPrefix(upper, "CREATE TABLE") THEN "table"
  ELSE IF HasPrefix(upper, "CREATE INDEX") \/ HasPrefix(upper, "CREATE UNIQUE INDEX")
  THEN "index"
  ELSE IF HasPrefix(upper, "CREATE VIEW") \/ HasPrefix(upper, "CREATE OR REPLACE VIEW")
  THEN "view"
  ELSE "other"

statementKind(stmt) == kindOf(ToUpper(stmt))

(***************************************************************************)
(* The differ (internal/diff).  Each compare function indexes both sides   *)
(* by name in a Go map and ranges over the maps.  A map keeps the last     *)
(* element stored under a key; the order of `range` over a map is not      *)
(* specified by Go and differs from run to run, so a list that is built by *)
(* ranging over a map may come out in any order of its elements: each      *)
(* compare function is the set of the results a run can give.              *)
(***************************************************************************)
\* The keys of the map built by `for i := range xs { m[key(xs[i])] = &xs[i] }`.
mapKeys(xs, key(_)) == {key(xs[i]) : i \in 1..Len(xs)}

\* m[k] for that map: the last element stored under k.
mapGet(xs, key(_), k) == xs[Max({i \in 1..Len(xs) : key(xs[i]) = k})]

nameOf(x) == x.Name

\* key := fk.Name; if key == "" { key = strings.Join(fk.Columns, "_") + "_fk" }
fkKey(fk) == IF fk.Name = "" THEN Join(fk.Columns, "_") \o "_fk" ELSE fk.Name

\* The lists that `for ... range m { list = append(list, ...) }` can build from
\* the elements S, and from one of the values C(k) for each key k of K.
Orderings(S) ==
  {f \in [1..Cardinality(S) -> S] : \A i, j \in 1..Cardinality(S) : i # j => f[i] # f[j]}

OrderingsOfChoices(K, C(_)) ==
  {f \in [1..Cardinality(K) -> UNION {C(k) : k \in K}] :
     \E o \in Orderings(K) : \A i \in 1..Cardinality(K) : f[i] \in C(o[i])}

\* for k, x := range xsMap { if _, exists := ysMap[k]; !exists { append(*x) } }
onlyIn(xs, ys, key(_)) ==
  {mapGet(xs, key, k) : k \in mapKeys(xs, key) \ mapKeys(ys, key)}

\* The keys of both maps.
inBoth(xs, ys, key(_)) == mapKeys(xs, key) \cap mapKeys(ys, key)

\* sameDefault without its first case: two nil pointers are not the same default.
sameDefaultNoNil(a, b) ==
  IF a = Nil \/ b = Nil THEN FALSE
  ELSE EqualFold(a[1], b[1])

sameDefault(a, b) ==
  IF a = Nil /\ b = Nil THEN TRUE
  ELSE IF a = Nil \/ b = Nil THEN FALSE
  ELSE EqualFold(a[1], b[1])

\* samePrimaryKey without the loop over the columns: the lengths only.
samePrimaryKeyByLength(source, target) ==
  IF source = Nil /\ target = Nil THEN TRUE
  ELSE IF source = Nil \/ target = Nil THEN FALSE
  ELSE Len(source[1].Columns) = Len(target[1].Columns)

samePrimaryKey(source, target) ==
  IF source = Nil /\ target = Nil THEN TRUE
  ELSE IF source = Nil \/ target = Nil THEN FALSE
  ELSE IF Len(source[1].Columns) # Len(target[1].Columns) THEN FALSE
  ELSE \A i \in 1..Len(source[1].Columns) : source[1].Columns[i] = target[1].Columns[i]

NewColumnChanges(name) ==
  [Name |-> name, OldType |-> "", NewType |-> "", NullableChanged |-> FALSE,
   OldNullable |-> FALSE, NewNullable |-> FALSE, DefaultChanged |-> FALSE,
   OldDefault |-> Nil, NewDefault |-> Nil]

\* The ColumnChanges that compareColumn fills in, given which parts differ.
columnChanges(source, target, typeDiffers, nullableDiffers, defaultDiffers) ==
  IF ~typeDiffers /\ ~nullableDiffers /\ ~defaultDiffers THEN Nil
  ELSE Some([NewColumnChanges(source.Name) EXCEPT
               !.OldType = IF typeDiffers THEN source.Type ELSE "",
               !.NewType = IF typeDiffers THEN target.Type ELSE "",
               !.NullableChanged = nullableDiffers,
               !.OldNullable = IF nullableDiffers THEN source.Nullable ELSE FALSE,
               !.NewNullable = IF nullableDiffers THEN target.Nullable ELSE FALSE,
               !.DefaultChanged = defaultDiffers,
               !.OldDefault = IF defaultDiffers THEN source.Default ELSE Nil,
               !.NewDefault = IF defaultDiffers THEN target.Default ELSE Nil])

\* compareColumn with the types compared as they are spelled.
compareColumnBySpelling(source, target) ==
  columnChanges(source, target,
                source.Type # target.Type,
                source.Nullable # target.Nullable,
                ~sameDefault(source.Default, target.Default))

\* compareColumn: Nil for Go's nil (no changes).
compareColumn(source, target) ==
  columnChanges(source, target,
                ~EqualFold(source.Type, target.Type),
                source.Nullable # target.Nullable,
                ~sameDefault(source.Default, target.Default))

\* The ColumnChanges of the columns found on both sides, where there are any.
modifiedColumns(source, target) ==
  {cc[1] : cc \in {compareColumn(mapGet(source.Columns, nameOf, k),
                                 mapGet(target.Columns, nameOf, k)) :
                     k \in inBoth(source.Columns, target.Columns, nameOf)} \ {Nil}}

\* The TableChanges that the loops of compareTable can build.
tableChanges(source, target) ==
  [Name : {source.Name},
   AddedColumns : Orderings(onlyIn(target.Columns, source.Columns, nameOf)),
   RemovedColumns : Orderings(onlyIn(source.Columns, target.Columns, nameOf)),
   ModifiedColumns : Orderings(modifiedColumns(source, target)),
   AddedIndexes : Orderings(onlyIn(target.Indexes, source.Indexes, nameOf)),
   RemovedIndexes : Orderings(onlyIn(source.Indexes, target.Indexes, nameOf)),
   AddedForeignKeys : Orderings(onlyIn(target.ForeignKeys, source.ForeignKeys, fkKey)),
   RemovedForeignKeys : Orderings(onlyIn(source.ForeignKeys, target.ForeignKeys, fkKey)),
   AddedConstraints : {<<>>},
   RemovedConstraints : {<<>>},
   PrimaryKeyChanged : {~samePrimaryKey(source.PrimaryKey, target.PrimaryKey)}]

\* hasChanges without the comparison of the primary keys.
hasChangesInLists(tc) ==
  \/ Len(tc.AddedColumns) > 0 \/ Len(tc.RemovedColumns) > 0 \/ Len(tc.ModifiedColumns) > 0
  \/ Len(tc.AddedIndexes) > 0 \/ Len(tc.RemovedIndexes) > 0
  \/ Len(tc.AddedForeignKeys) > 0 \/ Len(tc.RemovedForeignKeys) > 0

\* hasChanges at the end of compareTable.
hasChanges(tc) ==
  \/ Len(tc.AddedColumns) > 0 \/ Len(tc.RemovedColumns) > 0 \/ Len(tc.ModifiedColumns) > 0
  \/ Len(tc.AddedIndexes) > 0 \/ Len(tc.RemovedIndexes) > 0
  \/ Len(tc.AddedForeignKeys) > 0 \/ Len(tc.RemovedForeignKeys) > 0
  \/ tc.PrimaryKeyChanged

\* compareTable: the results a run can give, Nil for Go's nil (no changes).
compareTable(source, target) ==
  {IF hasChanges(tc) THEN Some(tc) ELSE Nil : tc \in tableChanges(source, target)}

\* The TableChanges a run can give for the table named k of both sides.
compareTableNamed(source, target, k) ==
  {tc[1] : tc \in compareTable(mapGet(source.Tables, nameOf, k),
                               mapGet(target.Tables, nameOf, k)) \ {Nil}}

\* The names of the tables of both sides for which compareTable gives changes.
modifiedTableNames(source, target) ==
  {k \in inBoth(source.Tables, target.Tables, nameOf) :
     compareTableNamed(source, target, k) # {}}

\* addedTables without the test of the source: every table of the target.
addedTablesOfTarget(source, target) == onlyIn(target.Tables, <<>>, nameOf)

addedTables(source, target) == onlyIn(target.Tables, source.Tables, nameOf)

\* removedTables with the test of the added tables: the tables of the target
\* that the source lacks.
removedTablesOfTarget(source, target) == onlyIn(target.Tables, source.Tables, nameOf)

removedTables(source, target) == onlyIn(source.Tables, target.Tables, nameOf)

compareTables(source, target) ==
  LET Changed(k) == compareTableNamed(source, target, k)
  IN  [AddedTables : Orderings(addedTables(source, target)),
       RemovedTables : Orderings(removedTables(source, target)),
       ModifiedTables : OrderingsOfChoices(modifiedTableNames(source, target), Changed)]

compareStandaloneIndexes(source, target) ==
  [AddedIndexes : Orderings(onlyIn(target.Indexes, source.Indexes, nameOf)),
   RemovedIndexes : Orderings(onlyIn(source.Indexes, target.Indexes, nameOf))]

\* normalizeSQL of the differ: trim, single spaces, upper case (comments stay).
diffNormalizeSQL(sql) == ToUpper(Join(Fields(TrimSpace(sql)), " "))

\* The ViewChanges of the views of both sides whose normalised definitions differ.
modifiedViews(source, target) ==
  {[Name |-> k,
    OldDefinition |-> mapGet(source.Views, nameOf, k).Definition,
    NewDefinition |-> mapGet(target.Views, nameOf, k).Definition] :
     k \in {n \in inBoth(source.Views, target.Views, nameOf) :
              diffNormalizeSQL(mapGet(source.Views, nameOf, n).Definition)
                # diffNormalizeSQL(mapGet(target.Views, nameOf, n).Definition)}}

compareViews(source, target) ==
  [AddedViews : Orderings(onlyIn(target.Views, source.Views, nameOf)),
   RemovedViews : Orderings(onlyIn(source.Views, target.Views, nameOf)),
   ModifiedViews : Orderings(modifiedViews(source, target))]

\* Compare (and Diff of pkg/migrate, which calls it): the Changes a run can give.
Compare(source, target) ==
  {t @@ i @@ v : t \in compareTables(source, target),
                 i \in compareStandaloneIndexes(source, target),
                 v \in compareViews(source, target)}

EmptyChanges ==
  [AddedTables |-> <<>>, RemovedTables |-> <<>>, ModifiedTables |-> <<>>,
   AddedIndexes |-> <<>>, RemovedIndexes |-> <<>>,
   AddedViews |-> <<>>, RemovedViews |-> <<>>, ModifiedViews |-> <<>>]

IsEmpty(c) ==
  /\ Len(c.AddedTables) = 0 /\ Len(c.RemovedTables) = 0 /\ Len(c.ModifiedTables) = 0
  /\ Len(c.AddedIndexes) = 0 /\ Len(c.RemovedIndexes) = 0
  /\ Len(c.AddedViews) = 0 /\ Len(c.RemovedViews) = 0 /\ Len(c.ModifiedViews) = 0

(***************************************************************************)
(* The dialect transformer (internal/dialect).  `to` and `from` are the    *)
(* fields of the Transformer.                                              *)
(***************************************************************************)
\* regexp `\((\d+|MAX)\)` with its "(" at i; e is the end of the run of digits.
lengthGroupAt(s, i, e) ==
  IF At(s, i) # "(" THEN <<>>
  ELSE IF e > i + 1 /\ At(s, e) = ")" THEN <<[ok |-> TRUE, group |-> SubSeq(s, i + 1, e - 1)]>>
  ELSE IF OccursAt(s, "MAX)", i + 1) THEN <<[ok |-> TRUE, group |-> "MAX"]>>
  ELSE <<>>

lengthReAt(t, i) == lengthGroupAt(t.s, i, SkipWhile(t.s, i + 1, DigitChars))

\* The VARCHAR case of normalizeType, from the match of the length pattern.
varcharOf(m) ==
  IF ~m.ok THEN "VARCHAR(255)"
  ELSE IF m.group = "MAX" THEN "TEXT"
  ELSE "VARCHAR(" \o m.group \o ")"

normalizeType(dataType) ==
  IF dataType \in {"INT", "INTEGER"} THEN "INTEGER"
  ELSE IF dataType = "BIGINT" THEN "BIGINT"
  ELSE IF dataType \in {"SMALLINT", "TINYINT"} THEN "SMALLINT"
  ELSE IF dataType \in {"BOOLEAN", "BOOL", "BIT", "TINYINT(1)"} THEN "BOOLEAN"
  ELSE IF \/ HasPrefix(dataType, "VARCHAR") \/ HasPrefix(dataType, "NVARCHAR")
          \/ HasPrefix(dataType, "CHARACTER VARYING")
  THEN varcharOf(firstOf([s |-> dataType, u |-> dataType], lengthReAt))
  ELSE IF dataType \in {"TEXT", "LONGTEXT", "MEDIUMTEXT", "NVARCHAR(MAX)", "NTEXT"} THEN "TEXT"
  ELSE IF dataType = "CHAR" \/ HasPrefix(dataType, "CHAR(") \/ HasPrefix(dataType, "NCHAR")
  THEN dataType
  ELSE IF dataType \in {"TIMESTAMP", "TIMESTAMP WITHOUT TIME ZONE", "DATETIME", "DATETIME2"}
  THEN "TIMESTAMP"
  ELSE IF dataType \in {"TIMESTAMP WITH TIME ZONE", "TIMESTAMPTZ", "DATETIMEOFFSET"}
  THEN "TIMESTAMP_TZ"
  ELSE IF dataType = "DATE" THEN "DATE"
  ELSE IF dataType \in {"TIME", "TIME WITHOUT TIME ZONE"} THEN "TIME"
  ELSE IF HasPrefix(dataType, "DECIMAL") \/ HasPrefix(dataType, "NUMERIC") THEN dataType
  ELSE IF dataType \in {"FLOAT", "REAL"} THEN "REAL"
  ELSE IF dataType \in {"DOUBLE", "DOUBLE PRECISION"} THEN "DOUBLE"
  ELSE IF dataType \in {"BYTEA", "BLOB", "LONGBLOB", "VARBINARY(MAX)", "IMAGE"} THEN "BINARY"
  ELSE IF dataType \in {"JSON", "JSONB"} THEN "JSON"
  ELSE IF dataType \in {"UUID", "UNIQUEIDENTIFIER"} THEN "UUID"
  ELSE dataType

\* A Go `switch x { case k: return v ... default: return d }` over a table of cases.
switchOn(x, cases, default) == IF x \in DOMAIN cases THEN cases[x] ELSE default

toPostgres(normalized) ==
  switchOn(normalized,
           [BOOLEAN |-> "BOOLEAN", TIMESTAMP |-> "TIMESTAMP",
            TIMESTAMP_TZ |-> "TIMESTAMP WITH TIME ZONE", BINARY |-> "BYTEA",
            JSON |-> "JSONB", UUID |-> "UUID", DOUBLE |-> "DOUBLE PRECISION"],
           normalized)

\* toMySQL without its cases: every canonical type passes through.
toMySQLUnmapped(normalized) == normalized

toMySQL(normalized) ==
  switchOn(normalized,
           [BOOLEAN |-> "TINYINT(1)", TIMESTAMP |-> "DATETIME", TIMESTAMP_TZ |-> "DATETIME",
            BINARY |-> "LONGBLOB", JSON |-> "JSON", UUID |-> "CHAR(36)",
            DOUBLE |-> "DOUBLE", TEXT |-> "LONGTEXT"],
           normalized)

\* strings.Replace(s, old, new, 1): the first occurrence, at the position i given (0: none).
replaceAt(s, old, new, i) ==
  IF i = 0 THEN s ELSE SubSeq(s, 1, i - 1) \o new \o From(s, i + Len(old))

toSQLServer(normalized) ==
  switchOn(normalized,
           [BOOLEAN |-> "BIT", TIMESTAMP |-> "DATETIME2", TIMESTAMP_TZ |-> "DATETIMEOFFSET",
            BINARY |-> "VARBINARY(MAX)", JSON |-> "NVARCHAR(MAX)",
            UUID |-> "UNIQUEIDENTIFIER", DOUBLE |-> "FLOAT", TEXT |-> "NVARCHAR(MAX)",
            INTEGER |-> "INT"],
           IF HasPrefix(normalized, "VARCHAR")
           THEN replaceAt(normalized, "VARCHAR", "NVARCHAR", Index(normalized, "VARCHAR"))
           ELSE normalized)

toTargetType(to, normalized) ==
  IF to = "postgres" THEN toPostgres(normalized)
  ELSE IF to = "mysql" THEN toMySQL(normalized)
  ELSE IF to = "sqlserver" THEN toSQLServer(normalized)
  ELSE normalized

mapDataType(to, dataType) == toTargetType(to, normalizeType(dataType))

\* mapIdentityType without the test for BIG: the narrow variant always.
mapIdentityTypeNarrow(to, dataType) ==
  IF to = "postgres" THEN "SERIAL"
  ELSE IF to = "mysql" THEN "INT AUTO_INCREMENT"
  ELSE IF to = "sqlserver" THEN "INT IDENTITY(1,1)"
  ELSE dataType

mapIdentityType(to, dataType) ==
  IF to = "postgres" THEN (IF Contains(dataType, "BIG") THEN "BIGSERIAL" ELSE "SERIAL")
  ELSE IF to = "mysql"
  THEN (IF Contains(dataType, "BIG") THEN "BIGINT AUTO_INCREMENT" ELSE "INT AUTO_INCREMENT")
  ELSE IF to = "sqlserver"
  THEN (IF Contains(dataType, "BIG") THEN "BIGINT IDENTITY(1,1)" ELSE "INT IDENTITY(1,1)")
  ELSE dataType

\* checkDataLoss with the case for JSON only.
checkDataLossOfJson(to, original, mapped, tableName, colName) ==
  IF original \in {"JSONB", "JSON"} /\ to = "sqlserver"
  THEN tableName \o "." \o colName
       \o ": JSON stored as NVARCHAR(MAX) - JSON functions available but no native type"
  ELSE ""

\* checkDataLoss: the warning, "" for none.
checkDataLoss(to, original, mapped, tableName, colName) ==
  IF original \in {"JSONB", "JSON"} /\ to = "sqlserver"
  THEN tableName \o "." \o colName
       \o ": JSON stored as NVARCHAR(MAX) - JSON functions available but no native type"
  ELSE IF original \in {"UUID", "UNIQUEIDENTIFIER"} /\ to = "mysql"
  THEN tableName \o "." \o colName
       \o ": UUID stored as CHAR(36) - no native UUID type in MySQL"
  ELSE IF HasPrefix(original, "TIMESTAMP") /\ Contains(original, "TIME ZONE") /\ to = "mysql"
  THEN tableName \o "." \o colName
       \o ": Timezone information will be lost - MySQL DATETIME has no timezone"
  ELSE IF original = "DOUBLE PRECISION" /\ to = "sqlserver"
  THEN tableName \o "." \o colName
       \o ": DOUBLE PRECISION mapped to FLOAT - verify precision requirements"
  ELSE ""

\* warnings = append(warnings, warning) where the warning is not "".
warningList(warning) == IF warning = "" THEN <<>> ELSE <<warning>>

\* The non-identity path of transformType, for the upper-cased type and its mapping.
mappedType(to, upper, mapped, tableName, colName) ==
  [type |-> mapped,
   warnings |-> warningList(checkDataLoss(to, upper, mapped, tableName, colName))]

upperType(to, upper, isIdentity, tableName, colName) ==
  IF isIdentity THEN [type |-> mapIdentityType(to, upper), warnings |-> <<>>]
  ELSE mappedType(to, upper, mapDataType(to, upper), tableName, colName)

\* transformType: [type, warnings].
transformType(to, dataType, isIdentity, tableName, colName) ==
  upperType(to, ToUpper(dataType), isIdentity, tableName, colName)

\* The cases of transformDefault for the upper-cased value; `var result string`
\* stays "" where the inner switch has no case for the target.
upperDefault(to, defaultVal, upper) ==
  IF upper \in {"NOW()", "CURRENT_TIMESTAMP", "GETDATE()", "GETUTCDATE()"}
  THEN switchOn(to, [postgres |-> "NOW()", mysql |-> "CURRENT_TIMESTAMP",
                     sqlserver |-> "GETDATE()"], "")
  ELSE IF upper \in {"TRUE", "FALSE"}
  THEN (IF to \in {"mysql", "sqlserver"} THEN (IF upper = "TRUE" THEN "1" ELSE "0")
        ELSE defaultVal)
  ELSE IF upper \in {"GEN_RANDOM_UUID()", "UUID()", "NEWID()"}
  THEN switchOn(to, [postgres |-> "gen_random_uuid()", mysql |-> "UUID()",
                     sqlserver |-> "NEWID()"], "")
  ELSE defaultVal

\* transformDefault: the string that the pointer returned points to.
transformDefault(to, defaultVal) == upperDefault(to, defaultVal, ToUpper(defaultVal))

\* The cases of mapIndexType for the upper-cased type.
upperIndexType(to, indexType, upper) ==
  IF to = "mysql" THEN (IF upper \in {"GIN", "GIST", "BRIN"} THEN "BTREE" ELSE upper)
  ELSE IF to = "sqlserver" THEN ""
  ELSE indexType

mapIndexType(to, indexType) ==
  IF indexType = "" THEN "" ELSE upperIndexType(to, indexType, ToUpper(indexType))

SupportedDialects == <<"postgres", "mysql", "sqlserver">>

IsSupported(dialect) == \E i \in 1..Len(SupportedDialects) : SupportedDialects[i] = dialect

(***************************************************************************)
(* Memory.  A Schema as the program holds it: the arrays of structs that   *)
(* Transform allocates with make are values, and every field that Go       *)
(* copies as a reference (pointer to PrimaryKey or string, slice of string) *)
(* holds an address                                                        *)
(* of the heap.  NilAddr is the nil pointer and the nil or empty slice.  *)
(* deepSchema reads a schema through the heap and gives the plain value    *)
(* that the parser builds and that Compare reads.                          *)
(***************************************************************************)
NilAddr == ""

EmptyCells == [a \in {} |-> ""]

RECURSIVE mergeCells(_)
mergeCells(fs) == IF Len(fs) = 0 THEN EmptyCells ELSE Head(fs) @@ mergeCells(Tail(fs))

Dig(i) == SubSeq(Digits, i + 1, i + 1)

derefStrings(heap, addr) == IF addr = NilAddr THEN <<>> ELSE heap[addr]

derefDefault(heap, addr) == IF addr = NilAddr THEN Nil ELSE Some(heap[addr])

derefPrimaryKey(heap, addr) ==
  IF addr = NilAddr THEN Nil
  ELSE Some([Name |-> heap[addr].Name, Columns |-> derefStrings(heap, heap[addr].Columns)])

deepColumn(heap, c) == [c EXCEPT !.Default = derefDefault(heap, c.Default)]

deepForeignKey(heap, fk) ==
  [fk EXCEPT !.Columns = derefStrings(heap, fk.Columns),
             !.ReferencedCols = derefStrings(heap, fk.ReferencedCols)]

deepIndex(heap, idx) == [idx EXCEPT !.Columns = derefStrings(heap, idx.Columns)]

deepConstraint(heap, c) == [c EXCEPT !.Columns = derefStrings(heap, c.Columns)]

deepTable(heap, t) ==
  [Name |-> t.Name, Schema |-> t.Schema,
   Columns |-> [j \in 1..Len(t.Columns) |-> deepColumn(heap, t.Columns[j])],
   PrimaryKey |-> derefPrimaryKey(heap, t.PrimaryKey),
   ForeignKeys |-> [j \in 1..Len(t.ForeignKeys) |-> deepForeignKey(heap, t.ForeignKeys[j])],
   Indexes |-> [j \in 1..Len(t.Indexes) |-> deepIndex(heap, t.Indexes[j])],
   Constraints |-> [j \in 1..Len(t.Constraints) |-> deepConstraint(heap, t.Constraints[j])]]

deepSchema(heap, s) ==
  [Tables |-> [i \in 1..Len(s.Tables) |-> deepTable(heap, s.Tables[i])],
   Indexes |-> [i \in 1..Len(s.Indexes) |-> deepIndex(heap, s.Indexes[i])],
   Views |-> s.Views]

\* The addresses of the []string arrays, the PrimaryKeys and the default strings
\* that a schema reaches.
stringsOfTable(t) ==
  {t.ForeignKeys[j].Columns : j \in 1..Len(t.ForeignKeys)}
    \cup {t.ForeignKeys[j].ReferencedCols : j \in 1..Len(t.ForeignKeys)}
    \cup {t.Indexes[j].Columns : j \in 1..Len(t.Indexes)}
    \cup {t.Constraints[j].Columns : j \in 1..Len(t.Constraints)}

primaryKeysOf(s) == {s.Tables[i].PrimaryKey : i \in 1..Len(s.Tables)} \ {NilAddr}

stringsOf(heap, s) ==
  (UNION {stringsOfTable(s.Tables[i]) : i \in 1..Len(s.Tables)}
     \cup {s.Indexes[i].Columns : i \in 1..Len(s.Indexes)}
     \cup {heap[a].Columns : a \in primaryKeysOf(s)}) \ {NilAddr}

defaultsOf(s) ==
  UNION {{s.Tables[i].Columns[j].Default : j \in 1..Len(s.Tables[i].Columns)}
           : i \in 1..Len(s.Tables)} \ {NilAddr}

\* A plain schema laid out in memory under the address prefix p: the schema as
\* held (store...) and the cells it occupies (cellsOf...).
addrOfStrings(p, xs) == IF Len(xs) = 0 THEN NilAddr ELSE p

cellsOfStrings(p, xs) == IF Len(xs) = 0 THEN EmptyCells ELSE p :> xs

storeColumn(p, c) == [c EXCEPT !.Default = IF c.Default = Nil THEN NilAddr ELSE p \o ".def"]

cellsOfColumn(p, c) == IF c.Default = Nil THEN EmptyCells ELSE (p \o ".def") :> c.Default[1]

storeForeignKey(p, fk) ==
  [fk EXCEPT !.Columns = addrOfStrings(p \o ".cols", fk.Columns),
             !.ReferencedCols = addrOfStrings(p \o ".refs", fk.ReferencedCols)]

cellsOfForeignKey(p, fk) ==
  cellsOfStrings(p \o ".cols", fk.Columns) @@ cellsOfStrings(p \o ".refs", fk.ReferencedCols)

storeColumns(p, x) == [x EXCEPT !.Columns = addrOfStrings(p \o ".cols", x.Columns)]

cellsOfColumns(p, x) == cellsOfStrings(p \o ".cols", x.Columns)

storePrimaryKey(p, pk) == IF pk = Nil THEN NilAddr ELSE p

cellsOfPrimaryKey(p, pk) ==
  IF pk = Nil THEN EmptyCells
  ELSE (p :> storeColumns(p, pk[1])) @@ cellsOfColumns(p, pk[1])

storeEach(p, xs, store(_, _)) == [j \in 1..Len(xs) |-> store(p \o Dig(j), xs[j])]

cellsOfEach(p, xs, cellsOf(_, _)) ==
  mergeCells([j \in 1..Len(xs) |-> cellsOf(p \o Dig(j), xs[j])])

storeTable(p, t) ==
  [Name |-> t.Name, Schema |-> t.Schema,
   Columns |-> storeEach(p \o ".c", t.Columns, storeColumn),
   PrimaryKey |-> storePrimaryKey(p \o ".pk", t.PrimaryKey),
   ForeignKeys |-> storeEach(p \o ".fk", t.ForeignKeys, storeForeignKey),
   Indexes |-> storeEach(p \o ".ix", t.Indexes, storeColumns),
   Constraints |-> storeEach(p \o ".ct", t.Constraints, storeColumns)]

cellsOfTable(p, t) ==
  cellsOfEach(p \o ".c", t.Columns, cellsOfColumn)
    @@ cellsOfPrimaryKey(p \o ".pk", t.PrimaryKey)
    @@ cellsOfEach(p \o ".fk", t.ForeignKeys, cellsOfForeignKey)
    @@ cellsOfEach(p \o ".ix", t.Indexes, cellsOfColumns)
    @@ cellsOfEach(p \o ".ct", t.Constraints, cellsOfColumns)

storeSchema(p, s) ==
  [Tables |-> storeEach(p \o ".T", s.Tables, storeTable),
   Indexes |-> storeEach(p \o ".ix", s.Indexes, storeColumns),
   Views |-> s.Views]

cellsOfSchema(p, s) ==
  cellsOfEach(p \o ".T", s.Tables, cellsOfTable)
    @@ cellsOfEach(p \o ".ix", s.Indexes, cellsOfColumns)

(***************************************************************************)
(* Transform over the schema in memory.  Each function gives what it       *)
(* returns and the cells it allocates; `fresh` is the address of the next  *)
(* allocation.                                                             *)
(***************************************************************************)
RECURSIVE Flatten(_)
Flatten(seqs) == IF Len(seqs) = 0 THEN <<>> ELSE Head(seqs) \o Flatten(Tail(seqs))

\* The transformed default written through the pointer of the input column
\* instead of to a string of its own.
defaultTargetOfInput(col, fresh) == col.Default

\* result.Default = t.transformDefault(*col.Default): the pointer that is stored
\* is to a string of its own (&result or &defaultVal, the parameter's copy).
defaultTarget(col, fresh) == fresh

transformedDefault(to, col, heap, target) ==
  IF col.Default = NilAddr THEN [addr |-> NilAddr, cells |-> EmptyCells]
  ELSE [addr |-> target, cells |-> target :> transformDefault(to, heap[col.Default])]

\* transformedColumn that copies no Nullable: the field keeps Go's zero value.
transformedColumnNotNullable(col, tt, d) ==
  [col |-> [Name |-> col.Name, Type |-> tt.type, Nullable |-> FALSE,
            Default |-> d.addr, IsPrimaryKey |-> col.IsPrimaryKey,
            IsUnique |-> col.IsUnique, IsIdentity |-> col.IsIdentity,
            Comment |-> col.Comment],
   warnings |-> tt.warnings,
   cells |-> d.cells]

transformedColumn(col, tt, d) ==
  [col |-> [Name |-> col.Name, Type |-> tt.type, Nullable |-> col.Nullable,
            Default |-> d.addr, IsPrimaryKey |-> col.IsPrimaryKey,
            IsUnique |-> col.IsUnique, IsIdentity |-> col.IsIdentity,
            Comment |-> col.Comment],
   warnings |-> tt.warnings,
   cells |-> d.cells]

\* transformColumn: [col, warnings, cells].
transformColumn(to, col, tableName, heap, fresh) ==
  transformedColumn(col,
                    transformType(to, col.Type, col.IsIdentity, tableName, col.Name),
                    transformedDefault(to, col, heap, defaultTarget(col, fresh)))

transformIndex(to, idx) ==
  [Name |-> idx.Name, Table |-> idx.Table, Schema |-> idx.Schema,
   Columns |-> idx.Columns, IsUnique |-> idx.IsUnique, IsPrimary |-> idx.IsPrimary,
   Type |-> mapIndexType(to, idx.Type)]

transformedTable(to, table, cols) ==
  [table |-> [Name |-> table.Name, Schema |-> table.Schema,
              Columns |-> [j \in 1..Len(cols) |-> cols[j].col],
              PrimaryKey |-> table.PrimaryKey,
              ForeignKeys |-> table.ForeignKeys,
              Indexes |-> [j \in 1..Len(table.Indexes) |->
                             transformIndex(to, table.Indexes[j])],
              Constraints |-> table.Constraints],
   warnings |-> Flatten([j \in 1..Len(cols) |-> cols[j].warnings]),
   cells |-> mergeCells([j \in 1..Len(cols) |-> cols[j].cells])]

\* transformTable: [table, warnings, cells]; p is the address prefix of its allocations.
transformTable(to, table, heap, p) ==
  transformedTable(to, table,
                   [j \in 1..Len(table.Columns) |->
                      transformColumn(to, table.Columns[j], table.Name, heap,
                                      p \o ".c" \o Dig(j) \o ".def")])

\* transformView: [view, warnings].
transformView(from, to, view) ==
  [view |-> [Name |-> view.Name, Schema |-> view.Schema, Definition |-> view.Definition],
   warnings |-> IF from # to
                THEN <<"View '" \o view.Name \o "' may contain " \o from
                         \o "-specific SQL that requires manual review">>
                ELSE <<>>]

transformedSchema(to, s, tables, views) ==
  [schema |-> [Tables |-> [i \in 1..Len(tables) |-> tables[i].table],
               Indexes |-> [i \in 1..Len(s.Indexes) |-> transformIndex(to, s.Indexes[i])],
               Views |-> [i \in 1..Len(views) |-> views[i].view]],
   warnings |-> Flatten([i \in 1..Len(tables) |-> tables[i].warnings])
                  \o Flatten([i \in 1..Len(views) |-> views[i].warnings]),
   cells |-> mergeCells([i \in 1..Len(tables) |-> tables[i].cells])]

\* Transform: [schema, warnings, cells], the allocations under the prefix "out".
Transform(from, to, s, heap) ==
  transformedSchema(to, s,
                    [i \in 1..Len(s.Tables) |->
                       transformTable(to, s.Tables[i], heap, "out.T" \o Dig(i))],
                    [i \in 1..Len(s.Views) |-> transformView(from, to, s.Views[i])])

(***************************************************************************)
(* The state.  Parse: the text given, the statements split from it, the    *)
(* index of the statement the loop is at, the Schema under construction    *)
(* and where the call is (idle, start, loop, returned, panicked).          *)
(*                                                                         *)
(* Diff: the two schemas given, the Changes of Diff(source, target), of a  *)
(* second call with the same arguments and of the call with the arguments  *)
(* exchanged, and where the calls are (idle, start, compared, repeated,    *)
(* reversed).                                                              *)
(*                                                                         *)
(* Transform: the dialects, the schema given as held in memory, the heap,  *)
(* the value of the input when the call was made, the schema and warnings  *)
(* returned, the Changes of Diff(input, output), and where the caller is   *)
(* (idle, start, transformed, diffed, mutated).                            *)
(***************************************************************************)
VARIABLES sql, statements, stmtIdx, schema, parsePc, parseErr,
          diffSource, diffTarget, changes, again, reversed, diffPc,
          from, to, input, heap, before, output, warnings, compared, transformPc,
          body, defs, membersPc

parseVars == <<sql, statements, stmtIdx, schema, parsePc, parseErr>>

diffVars == <<diffSource, diffTarget, changes, again, reversed, diffPc>>

transformVars == <<from, to, input, heap, before, output, warnings, compared, transformPc>>

\* A call of splitColumnDefs: its argument, its result and its position
\* (idle, start, split).
memberVars == <<body, defs, membersPc>>

vars == <<parseVars, diffVars, transformVars, memberVars>>

MembersIdle ==
  /\ body = ""
  /\ defs = <<>>
  /\ membersPc = "idle"

ParseIdle ==
  /\ sql = ""
  /\ statements = <<>>
  /\ stmtIdx = 0
  /\ schema = EmptySchema
  /\ parsePc = "idle"
  /\ parseErr = Nil

DiffIdle ==
  /\ diffSource = EmptySchema
  /\ diffTarget = EmptySchema
  /\ changes = Nil
  /\ again = Nil
  /\ reversed = Nil
  /\ diffPc = "idle"

TransformIdle ==
  /\ from = ""
  /\ to = ""
  /\ input = EmptySchema
  /\ heap = EmptyCells
  /\ before = EmptySchema
  /\ output = Nil
  /\ warnings = <<>>
  /\ compared = Nil
  /\ transformPc = "idle"

(***************************************************************************)
(* The documents Parse is given: up to MaxStatements statements, each one  *)
(* of Fragments, separated by ";" and a line break.  The last statement    *)
(* has no ";" after it.                                                    *)
(***************************************************************************)
MaxStatements == 2

Fragments ==
  { "CREATE TABLE users (id SERIAL PRIMARY KEY, email VARCHAR(255) NOT NULL UNIQUE)",
    "CREATE TABLE posts (\n  id INT, -- the key\n  price NUMERIC(10,2) DEFAULT 0 NOT NULL,\n  PRIMARY KEY (id),\n  CHECK (price > 0 AND price < 100)\n)",
    "create table if not exists app.users (id bigint not null, /* owner */ user_id INT, CONSTRAINT fk_u FOREIGN KEY (user_id) REFERENCES users(id) ON DELETE CASCADE)",
    "CREATE TABLE t ) (",
    "CREATE TABLE",
    "CREATE INDEX idx_posts_user_id ON posts(user_id DESC)",
    "CREATE UNIQUE INDEX",
    "CREATE VIEW v AS SELECT id FROM users",
    "CREATE OR REPLACE VIEW v",
    "GRANT ALL ON users TO app",
    "ALTER TABLE users ADD note TEXT DEFAULT 'a;b'",
    "" }

Documents ==
  UNION {{Join(d, ";\n") : d \in [1..n -> Fragments]} : n \in 1..MaxStatements}

\* Parse is called with a document: schema := &Schema{...}.
InitParse ==
  /\ sql \in Documents
  /\ statements = <<>>
  /\ stmtIdx = 0
  /\ schema = EmptySchema
  /\ parsePc = "start"
  /\ parseErr = Nil
  /\ DiffIdle
  /\ TransformIdle
  /\ MembersIdle

\* sql = normalizeSQL(sql); statements := splitStatements(sql)
ParseSplit ==
  /\ parsePc = "start"
  /\ statements' = splitStatements(normalizeSQL(sql))
  /\ stmtIdx' = 1
  /\ parsePc' = "loop"
  /\ UNCHANGED <<sql, schema, parseErr, diffVars, transformVars, memberVars>>

\* What one pass of the loop of Parse does with a statement: [panic, schema].
keepSchema(sch) == [panic |-> FALSE, schema |-> sch]

addTable(sch, t) ==
  IF t.panic THEN [panic |-> TRUE, schema |-> sch]
  ELSE IF t.err THEN keepSchema(sch)
  ELSE [panic |-> FALSE, schema |-> [sch EXCEPT !.Tables = Append(@, t.table)]]

addIndex(sch, i) ==
  IF i.err THEN keepSchema(sch)
  ELSE [panic |-> FALSE, schema |-> [sch EXCEPT !.Indexes = Append(@, i.idx)]]

addView(sch, v) ==
  IF v.err THEN keepSchema(sch)
  ELSE [panic |-> FALSE, schema |-> [sch EXCEPT !.Views = Append(@, v.view)]]

statementOfKind(stmt, kind, sch) ==
  IF stmt = "" THEN keepSchema(sch)
  ELSE IF kind = "table" THEN addTable(sch, parseCreateTable(stmt))
  ELSE IF kind = "index" THEN addIndex(sch, parseCreateIndex(stmt))
  ELSE IF kind = "view" THEN addView(sch, parseCreateView(stmt))
  ELSE keepSchema(sch)

trimmedStatement(stmt, sch) == statementOfKind(stmt, statementKind(stmt), sch)

parseStatement(rawStmt, sch) == trimmedStatement(TrimSpace(rawStmt), sch)

\* One pass of `for _, stmt := range statements`.  A panic is not recovered:
\* it leaves Parse, and the statements after it are not looked at.
ParseStatement ==
  /\ parsePc = "loop"
  /\ stmtIdx <= Len(statements)
  /\ \E r \in {parseStatement(statements[stmtIdx], schema)} :
       /\ schema' = r.schema
       /\ parsePc' = IF r.panic THEN "panicked" ELSE "loop"
       /\ stmtIdx' = IF r.panic THEN stmtIdx ELSE stmtIdx + 1
  /\ UNCHANGED <<sql, statements, parseErr, diffVars, transformVars, memberVars>>

\* return schema, nil
ParseReturn ==
  /\ parsePc = "loop"
  /\ stmtIdx > Len(statements)
  /\ parsePc' = "returned"
  /\ parseErr' = Nil
  /\ UNCHANGED <<sql, statements, stmtIdx, schema, diffVars, transformVars, memberVars>>

NextParse == ParseSplit \/ ParseStatement \/ ParseReturn

SpecParse == InitParse /\ [][NextParse]_vars

(***************************************************************************)
(* Properties of Parse, checked under SpecParse.                           *)
(***************************************************************************)
\* C1: Parse never fails the whole parse: whatever the text, a CREATE TABLE
\* whose first "(" comes after its last ")" included, the call is not aborted
\* by a panic and comes to return a Schema with a nil error.
C1_ParseNeverAborts == parsePc # "panicked"

\* The call is aborted in the statement CREATE TABLE t ) ( with nothing added.
C1_SliceOutOfRange ==
  /\ parsePc = "panicked"
  /\ sql = "CREATE TABLE t ) ("
  /\ schema = EmptySchema

\* C7: a column declared with an inline PRIMARY KEY becomes the PrimaryKey of
\* its table: after Parse has returned, every table with a column c flagged
\* IsPrimaryKey has a PrimaryKey whose column list is [c].
C7_InlinePrimaryKeyRecorded ==
  parsePc = "returned" =>
    \A i \in 1..Len(schema.Tables) :
      \A j \in 1..Len(schema.Tables[i].Columns) :
        schema.Tables[i].Columns[j].IsPrimaryKey =>
          /\ schema.Tables[i].PrimaryKey # Nil
          /\ schema.Tables[i].PrimaryKey[1].Columns = <<schema.Tables[i].Columns[j].Name>>

\* The users table of the scenario as Parse returns it: one table, two columns,
\* id flagged as key, email unique and not nullable, and no PrimaryKey.
C7_UsersWithoutPrimaryKey ==
  /\ parsePc = "returned"
  /\ sql = "CREATE TABLE users (id SERIAL PRIMARY KEY, email VARCHAR(255) NOT NULL UNIQUE)"
  /\ Len(schema.Tables) = 1
  /\ schema.Tables[1].Name = "users"
  /\ Len(schema.Tables[1].Columns) = 2
  /\ schema.Tables[1].Columns[1].Name = "id"
  /\ schema.Tables[1].Columns[1].IsPrimaryKey
  /\ schema.Tables[1].Columns[2].Name = "email"
  /\ schema.Tables[1].Columns[2].IsUnique
  /\ ~schema.Tables[1].Columns[2].Nullable
  /\ schema.Tables[1].PrimaryKey = Nil

\* A statement lacks the structure its kind expects: a CREATE TABLE without a
\* name or without a parenthesised body, a CREATE INDEX without a name, a table
\* or a column list, a CREATE VIEW without a name or an AS clause.
lacksTableStructure(tx) ==
  \/ ~firstOf(tx, tableNameReAt).ok
  \/ Index(tx.s, "(") = 0
  \/ LastIndex(tx.s, ")") = 0

lacksIndexStructure(tx) ==
  \/ ~firstOf(tx, indexNameReAt).ok
  \/ ~firstOf(tx, indexTableReAt).ok
  \/ ~firstOf(tx, colsReAt).ok

lacksViewStructure(tx) == ~firstOf(tx, viewNameReAt).ok \/ asReEnd(tx) = 0

lacksStructure(stmt, kind) ==
  \/ kind = "other"
  \/ kind = "table" /\ lacksTableStructure(Text(stmt))
  \/ kind = "index" /\ lacksIndexStructure(Text(stmt))
  \/ kind = "view" /\ lacksViewStructure(Text(stmt))

addsNothing(stmt) == lacksStructure(stmt, statementKind(stmt))

\* C8: a statement that begins like CREATE TABLE, CREATE [UNIQUE] INDEX or
\* CREATE [OR REPLACE] VIEW but lacks the structure expected, and a statement
\* of any other kind, adds no Table, Index or View: the pass of the loop over
\* it leaves the Schema as it was.
C8_MalformedStatementAddsNothing ==
  [][(/\ parsePc = "loop"
      /\ stmtIdx <= Len(statements)
      /\ addsNothing(TrimSpace(statements[stmtIdx]))) => schema' = schema]_vars

\* The statement CREATE TABLE, with no name and no body, has added a Table
\* with an empty name and no columns.
C8_EmptyTableAdded ==
  /\ parsePc = "returned"
  /\ sql = "CREATE TABLE"
  /\ schema.Tables = <<NewTable>>

\* C13: in every Schema that Parse returns, whatever the document (several
\* CREATE TABLE statements for one name, or several without a name,
\* included), no two entries of Tables have the same Name.
C13_TableNamesUnique ==
  parsePc = "returned" =>
    \A i, j \in 1..Len(schema.Tables) :
      i # j => schema.Tables[i].Name # schema.Tables[j].Name

\* Parse has returned two tables named users for a document with two CREATE
\* TABLE users statements.
C13_TwoTablesNamedUsers ==
  /\ parsePc = "returned"
  /\ Len(statements) = 2
  /\ TrimSpace(statements[1]) = TrimSpace(statements[2])
  /\ Len(schema.Tables) = 2
  /\ schema.Tables[1].Name = "users"
  /\ schema.Tables[2].Name = "users"

\* The columns of the table that its primary key names.
keyColumns(t) ==
  {i \in 1..Len(t.Columns) :
     t.PrimaryKey # Nil /\ \E j \in 1..Len(t.PrimaryKey[1].Columns) :
                             t.PrimaryKey[1].Columns[j] = t.Columns[i].Name}

\* C24: in every Table returned by Parse a column that is part of the table's
\* primary key, declared inline on the column or by a PRIMARY KEY (...) or
\* CONSTRAINT ... PRIMARY KEY (...) member, has nullable = false.
C24_KeyColumnsNotNullable ==
  \A n \in 1..Len(schema.Tables) :
    /\ \A i \in keyColumns(schema.Tables[n]) : ~schema.Tables[n].Columns[i].Nullable
    /\ \A i \in 1..Len(schema.Tables[n].Columns) :
         schema.Tables[n].Columns[i].IsPrimaryKey => ~schema.Tables[n].Columns[i].Nullable

\* Parse has returned the table posts with the primary key (id) of the member
\* PRIMARY KEY (id) and with the column id nullable.
C24_KeyColumnNullable ==
  /\ parsePc = "returned"
  /\ Len(schema.Tables) >= 1
  /\ schema.Tables[1].Name = "posts"
  /\ schema.Tables[1].PrimaryKey = Some([Name |-> "", Columns |-> <<"id">>])
  /\ schema.Tables[1].Columns[1].Name = "id"
  /\ schema.Tables[1].Columns[1].Nullable

(***************************************************************************)
(* The schemas Diff is given: up to MaxDiffTables tables, each one of      *)
(* DiffTables (two versions of users, so that a schema can repeat a name   *)
(* and a table can be modified), with one of DiffExtras for the standalone *)
(* indexes and the views.                                                  *)
(***************************************************************************)
MaxDiffTables == 2

UsersV1 == [NewTable EXCEPT !.Name = "users", !.Columns = <<NewColumn("id", "INT")>>]

UsersV2 ==
  [NewTable EXCEPT
     !.Name = "users",
     !.Columns = <<[NewColumn("id", "BIGINT") EXCEPT !.Nullable = FALSE],
                   [NewColumn("email", "TEXT") EXCEPT !.Default = Some("''")],
                   NewColumn("team_id", "int")>>,
     !.PrimaryKey = Some([Name |-> "", Columns |-> <<"id">>]),
     !.ForeignKeys = <<[NewForeignKey EXCEPT !.Name = "fk_team", !.Columns = <<"team_id">>,
                                             !.ReferencedTable = "teams",
                                             !.ReferencedCols = <<"id">>]>>,
     !.Indexes = <<[NewIndex EXCEPT !.Name = "idx_email", !.Columns = <<"email">>]>>,
     !.Constraints = <<[NewConstraint("UNIQUE") EXCEPT !.Name = "uq_email",
                                                      !.Columns = <<"email">>]>>]

Teams == [NewTable EXCEPT !.Name = "teams", !.Columns = <<NewColumn("id", "int")>>]

DiffTables == {UsersV1, UsersV2, Teams}

UsersView(definition) == [Name |-> "v", Schema |-> "", Definition |-> definition]

TeamIndex(unique) ==
  [NewIndex EXCEPT !.Name = "idx_team", !.Table = "users", !.Columns = <<"team_id">>,
                   !.IsUnique = unique]

DiffExtras ==
  { [Indexes |-> <<>>, Views |-> <<>>],
    [Indexes |-> <<TeamIndex(FALSE)>>, Views |-> <<UsersView("SELECT id FROM users")>>],
    [Indexes |-> <<TeamIndex(TRUE)>>, Views |-> <<UsersView("select  id\nfrom users")>>],
    [Indexes |-> <<>>, Views |-> <<UsersView("SELECT email FROM users")>>] }

DiffSchemas ==
  {[Tables |-> ts, Indexes |-> e.Indexes, Views |-> e.Views] :
     ts \in UNION {[1..n -> DiffTables] : n \in 0..MaxDiffTables}, e \in DiffExtras}

\* Diff is called with two schemas.
InitDiff ==
  /\ diffSource \in DiffSchemas
  /\ diffTarget \in DiffSchemas
  /\ changes = Nil
  /\ again = Nil
  /\ reversed = Nil
  /\ diffPc = "start"
  /\ ParseIdle
  /\ TransformIdle
  /\ MembersIdle

\* changes := Diff(source, target)
DiffCompare ==
  /\ diffPc = "start"
  /\ changes' \in Compare(diffSource, diffTarget)
  /\ diffPc' = "compared"
  /\ UNCHANGED <<diffSource, diffTarget, again, reversed, parseVars, transformVars, memberVars>>

\* A second call with the same arguments: again := Diff(source, target)
DiffAgain ==
  /\ diffPc = "compared"
  /\ again' \in Compare(diffSource, diffTarget)
  /\ diffPc' = "repeated"
  /\ UNCHANGED <<diffSource, diffTarget, changes, reversed, parseVars, transformVars, memberVars>>

\* The call with the arguments exchanged: reversed := Diff(target, source)
DiffReverse ==
  /\ diffPc = "compared"
  /\ reversed' \in Compare(diffTarget, diffSource)
  /\ diffPc' = "reversed"
  /\ UNCHANGED <<diffSource, diffTarget, changes, again, parseVars, transformVars, memberVars>>

NextDiff == DiffCompare \/ DiffAgain \/ DiffReverse

SpecDiff == InitDiff /\ [][NextDiff]_vars

(***************************************************************************)
(* Properties of Diff, checked under SpecDiff.                             *)
(***************************************************************************)
\* C2: Diff(S, S) is empty for every Schema S, a schema that repeats a name
\* included: all eight lists of the Changes returned are empty.
C2_DiffOfSameSchemaIsEmpty ==
  (diffPc \in {"compared", "repeated", "reversed"} /\ diffSource = diffTarget)
    => IsEmpty(changes)

\* Diff has compared a schema with itself that holds two tables named users,
\* a standalone index and a view.
C2_SameSchemaCompared ==
  /\ diffPc = "compared"
  /\ diffSource = diffTarget
  /\ diffSource.Tables = <<UsersV1, UsersV2>>
  /\ Len(diffSource.Indexes) = 1
  /\ Len(diffSource.Views) = 1
  /\ changes = EmptyChanges

\* The names of the tables of a list.
tableNames(tables) == {tables[i].Name : i \in 1..Len(tables)}

\* C3: for all schemas A and B, a table name is among the AddedTables of
\* Diff(A, B) if and only if it is among the RemovedTables of Diff(B, A).
C3_AddedIffRemovedInReverse ==
  diffPc = "reversed" =>
    tableNames(changes.AddedTables) = tableNames(reversed.RemovedTables)

\* Both calls were made for a source with the table teams only and a target
\* with both versions of users: Diff(A, B) reports users added and teams
\* removed, Diff(B, A) reports users removed and teams added.
C3_AddedAndRemovedReported ==
  /\ diffPc = "reversed"
  /\ diffSource.Tables = <<Teams>>
  /\ diffTarget.Tables = <<UsersV1, UsersV2>>
  /\ changes.AddedTables = <<UsersV2>>
  /\ reversed.RemovedTables = <<UsersV2>>
  /\ changes.RemovedTables = <<Teams>>
  /\ reversed.AddedTables = <<Teams>>

\* C6: the output of Diff is deterministic, the order of every list included:
\* a second run of Diff(A, B) returns the same Changes as the first.
C6_DiffIsDeterministic == diffPc = "repeated" => again = changes

\* Two runs of Diff for the same schemas have listed the same two added
\* tables in different orders.
C6_AddedTablesInTwoOrders ==
  /\ diffPc = "repeated"
  /\ diffSource.Tables = <<>>
  /\ diffTarget.Tables = <<UsersV1, Teams>>
  /\ changes.AddedTables = <<UsersV1, Teams>>
  /\ again.AddedTables = <<Teams, UsersV1>>

(***************************************************************************)
(* Diff of two versions of one table: each schema holds the table users    *)
(* with one of UsersColumns, with or without a primary key, and with one   *)
(* of UsersMembers for its indexes, foreign keys and constraints.          *)
(***************************************************************************)
UsersIdEmail == <<NewColumn("id", "INT"), NewColumn("email", "TEXT")>>

UsersColumns ==
  { UsersIdEmail,
    UsersIdEmail \o <<NewColumn("name", "TEXT")>>,
    <<[NewColumn("id", "BIGINT") EXCEPT !.Nullable = FALSE], NewColumn("email", "TEXT")>>,
    <<NewColumn("id", "int"), [NewColumn("email", "TEXT") EXCEPT !.Default = Some("''")]>> }

UsersKeys == {Nil, Some([Name |-> "pk_users", Columns |-> <<"id">>])}

UsersMembers ==
  { [ForeignKeys |-> <<>>, Indexes |-> <<>>, Constraints |-> <<>>],
    [ForeignKeys |-> <<>>, Indexes |-> <<[NewIndex EXCEPT !.Name = "idx_email",
                                                          !.Columns = <<"email">>]>>,
     Constraints |-> <<>>],
    [ForeignKeys |-> <<[NewForeignKey EXCEPT !.Columns = <<"id">>,
                                             !.ReferencedTable = "teams",
                                             !.ReferencedCols = <<"id">>]>>,
     Indexes |-> <<>>, Constraints |-> <<>>],
    [ForeignKeys |-> <<>>, Indexes |-> <<>>,
     Constraints |-> <<[NewConstraint("UNIQUE") EXCEPT !.Name = "uq_email",
                                                      !.Columns = <<"email">>]>>] }

UsersTable(cols, pk, m) ==
  [Name |-> "users", Schema |-> "", Columns |-> cols, PrimaryKey |-> pk,
   ForeignKeys |-> m.ForeignKeys, Indexes |-> m.Indexes, Constraints |-> m.Constraints]

UsersSchemas ==
  {[EmptySchema EXCEPT !.Tables = <<UsersTable(cols, pk, m)>>] :
     cols \in UsersColumns, pk \in UsersKeys, m \in UsersMembers}

\* Diff is called with two versions of the table users.
InitDiffTable ==
  /\ diffSource \in UsersSchemas
  /\ diffTarget \in UsersSchemas
  /\ changes = Nil
  /\ again = Nil
  /\ reversed = Nil
  /\ diffPc = "start"
  /\ ParseIdle
  /\ TransformIdle
  /\ MembersIdle

SpecDiffTable == InitDiffTable /\ [][NextDiff]_vars

\* A sub-comparison of compareTable finds something for the two tables: an
\* added, removed or modified column, an added or removed index or foreign
\* key, or another primary key.
subComparisonNonEmpty(source, target) ==
  \/ onlyIn(target.Columns, source.Columns, nameOf) # {}
  \/ onlyIn(source.Columns, target.Columns, nameOf) # {}
  \/ modifiedColumns(source, target) # {}
  \/ onlyIn(target.Indexes, source.Indexes, nameOf) # {}
  \/ onlyIn(source.Indexes, target.Indexes, nameOf) # {}
  \/ onlyIn(target.ForeignKeys, source.ForeignKeys, fkKey) # {}
  \/ onlyIn(source.ForeignKeys, target.ForeignKeys, fkKey) # {}
  \/ ~samePrimaryKey(source.PrimaryKey, target.PrimaryKey)

\* The number of records of ModifiedTables for the table named k.
recordsOf(c, k) ==
  Cardinality({i \in 1..Len(c.ModifiedTables) : c.ModifiedTables[i].Name = k})

\* The TableChanges for users whose only content is the added column name.
UsersNameAdded ==
  [Name |-> "users", AddedColumns |-> <<NewColumn("name", "TEXT")>>,
   RemovedColumns |-> <<>>, ModifiedColumns |-> <<>>, AddedIndexes |-> <<>>,
   RemovedIndexes |-> <<>>, AddedForeignKeys |-> <<>>, RemovedForeignKeys |-> <<>>,
   AddedConstraints |-> <<>>, RemovedConstraints |-> <<>>, PrimaryKeyChanged |-> FALSE]

ViewTexts ==
  { "SELECT id FROM users",
    "select  id\nfrom users ",
    "SELECT id FROM users -- all ids",
    "SELECT id /* key */ FROM users",
    "SELECT email FROM users" }

ViewsNamed(name, texts) ==
  {<<>>} \cup {<<[Name |-> name, Schema |-> "", Definition |-> d]>> : d \in texts}

ViewSchemas ==
  {[EmptySchema EXCEPT !.Views = v \o w] :
     v \in ViewsNamed("v", ViewTexts), w \in ViewsNamed("w", {"SELECT 1", "SELECT 2"})}

\* Diff is called with two schemas of views.
InitDiffViews ==
  /\ diffSource \in ViewSchemas
  /\ diffTarget \in ViewSchemas
  /\ changes = Nil
  /\ again = Nil
  /\ reversed = Nil
  /\ diffPc = "start"
  /\ ParseIdle
  /\ TransformIdle
  /\ MembersIdle

SpecDiffViews == InitDiffViews /\ [][NextDiff]_vars

\* A definition without its comments, in one case and with single spaces.
withoutCommentsCaseSpacing(definition) == ToUpper(normalizeSQL(definition))

modifiedViewNames(c) == {c.ModifiedViews[i].Name : i \in 1..Len(c.ModifiedViews)}

\* C12: a view present in both schemas is in ModifiedViews if and only if its
\* two definitions differ by more than SQL comments, letter case and runs of
\* or leading or trailing white space.
C12_ViewModifiedIffTextDiffers ==
  diffPc = "compared" =>
    \A k \in inBoth(diffSource.Views, diffTarget.Views, nameOf) :
      k \in modifiedViewNames(changes)
        <=> withoutCommentsCaseSpacing(mapGet(diffSource.Views, nameOf, k).Definition)
              # withoutCommentsCaseSpacing(mapGet(diffTarget.Views, nameOf, k).Definition)

\* The two definitions of v differ in a comment only, and Diff has reported v
\* as modified.
C12_CommentReportedAsChange ==
  /\ diffPc = "compared"
  /\ diffSource.Views = <<UsersView("SELECT id FROM users")>>
  /\ diffTarget.Views = <<UsersView("SELECT id FROM users -- all ids")>>
  /\ changes.ModifiedViews
       = <<[Name |-> "v", OldDefinition |-> "SELECT id FROM users",
            NewDefinition |-> "SELECT id FROM users -- all ids"]>>

\* The two definitions of v differ in letter case and white space only, and
\* Diff has reported no change.
C12_CaseAndSpacingIgnored ==
  /\ diffPc = "compared"
  /\ diffSource.Views = <<UsersView("SELECT id FROM users")>>
  /\ diffTarget.Views = <<UsersView("select  id\nfrom users ")>>
  /\ IsEmpty(changes)

(***************************************************************************)
(* The calls of Transform: a schema of up to MaxTables tables, each the    *)
(* table items with one of TransformColumns, bare or with a primary key, a *)
(* foreign key, an index and a constraint on it, with one of               *)
(* TransformExtras; the pairs of dialects are the three supported ones     *)
(* with themselves, two conversions and two unsupported targets.           *)
(***************************************************************************)
MaxTables == 1

TransformColumns ==
  { NewColumn("id", "INT"),
    [NewColumn("id", "bigint") EXCEPT !.IsIdentity = TRUE, !.Nullable = FALSE],
    NewColumn("data", "JSON"),
    [NewColumn("at", "TIMESTAMP WITH TIME ZONE") EXCEPT !.Default = Some("now()")],
    [NewColumn("name", "varchar(50)") EXCEPT !.Default = Some("'x'")],
    [NewColumn("ok", "BOOLEAN") EXCEPT !.Default = Some("TRUE")],
    NewColumn("note", "TEXT") }

ItemsTable(col) == [NewTable EXCEPT !.Name = "items", !.Columns = <<col>>]

KeyedItemsTable(col) ==
  [NewTable EXCEPT
     !.Name = "items",
     !.Columns = <<col>>,
     !.PrimaryKey = Some([Name |-> "pk_items", Columns |-> <<col.Name>>]),
     !.ForeignKeys = <<[NewForeignKey EXCEPT !.Name = "fk_items", !.Columns = <<col.Name>>,
                                             !.ReferencedTable = "users",
                                             !.ReferencedCols = <<"id">>]>>,
     !.Indexes = <<[NewIndex EXCEPT !.Name = "idx_items", !.Table = "items",
                                    !.Columns = <<col.Name>>, !.Type = "gin"]>>,
     !.Constraints = <<[NewConstraint("UNIQUE") EXCEPT !.Name = "uq_items",
                                                      !.Columns = <<col.Name>>]>>]

TransformTables ==
  {ItemsTable(c) : c \in TransformColumns} \cup {KeyedItemsTable(c) : c \in TransformColumns}

TransformExtras ==
  { [Indexes |-> <<>>, Views |-> <<>>],
    [Indexes |-> <<TeamIndex(FALSE)>>, Views |-> <<UsersView("SELECT id FROM users")>>],
    [Indexes |-> <<[TeamIndex(TRUE) EXCEPT !.Type = "btree"]>>, Views |-> <<>>] }

TransformSchemas ==
  {[Tables |-> ts, Indexes |-> e.Indexes, Views |-> e.Views] :
     ts \in UNION {[1..n -> TransformTables] : n \in 0..MaxTables}, e \in TransformExtras}

DialectPairs ==
  { <<"postgres", "postgres">>, <<"mysql", "mysql">>, <<"sqlserver", "sqlserver">>,
    <<"postgres", "mysql">>, <<"mysql", "sqlserver">>,
    <<"postgres", "oracle">>, <<"postgres", "Postgres">> }

\* The caller holds a schema in memory and is about to call
\* Transform(input, from, to).
InitTransform ==
  /\ \E d \in DialectPairs : from = d[1] /\ to = d[2]
  /\ \E s \in TransformSchemas :
       /\ input = storeSchema("in", s)
       /\ heap = cellsOfSchema("in", s)
       /\ before = s
  /\ output = Nil
  /\ warnings = <<>>
  /\ compared = Nil
  /\ transformPc = "start"
  /\ ParseIdle
  /\ DiffIdle
  /\ MembersIdle

\* output, warnings := Transform(input, from, to)
TransformCall ==
  /\ transformPc = "start"
  /\ \E r \in {Transform(from, to, input, heap)} :
       /\ output' = Some(r.schema)
       /\ warnings' = r.warnings
       /\ heap' = r.cells @@ heap
  /\ transformPc' = "transformed"
  /\ UNCHANGED <<from, to, input, before, compared, parseVars, diffVars, memberVars>>

\* compared := Diff(input, output); Compare only reads the two schemas.
DiffTransformed ==
  /\ transformPc = "transformed"
  /\ compared' \in Compare(deepSchema(heap, input), deepSchema(heap, output[1]))
  /\ transformPc' = "diffed"
  /\ UNCHANGED <<from, to, input, heap, before, output, warnings, parseVars, diffVars, memberVars>>

\* The caller changes the output in place: the first element of a column list
\* of a primary key, foreign key, index or constraint ...
MutateStrings ==
  /\ transformPc = "transformed"
  /\ \E a \in stringsOf(heap, output[1]) :
       heap' = [heap EXCEPT ![a] = [@ EXCEPT ![1] = "changed"]]
  /\ transformPc' = "mutated"
  /\ UNCHANGED <<from, to, input, before, output, warnings, compared, parseVars, diffVars, memberVars>>

\* ... the name of a table's PrimaryKey ...
MutatePrimaryKey ==
  /\ transformPc = "transformed"
  /\ \E a \in primaryKeysOf(output[1]) :
       heap' = [heap EXCEPT ![a] = [@ EXCEPT !.Name = "changed"]]
  /\ transformPc' = "mutated"
  /\ UNCHANGED <<from, to, input, before, output, warnings, compared, parseVars, diffVars, memberVars>>

\* ... or the string a column's Default points to.
MutateDefault ==
  /\ transformPc = "transformed"
  /\ \E a \in defaultsOf(output[1]) : heap' = [heap EXCEPT ![a] = "changed"]
  /\ transformPc' = "mutated"
  /\ UNCHANGED <<from, to, input, before, output, warnings, compared, parseVars, diffVars, memberVars>>

NextTransform ==
  TransformCall \/ DiffTransformed \/ MutateStrings \/ MutatePrimaryKey \/ MutateDefault

SpecTransform == InitTransform /\ [][NextTransform]_vars

(***************************************************************************)
(* Properties of Transform, checked under SpecTransform.                   *)
(***************************************************************************)
\* C4: for every Schema S and every supported dialect D, Transform(S, D, D)
\* returns a Schema structurally equal to S, every column type, default and
\* index method unchanged, with an empty list of warnings.
C4_SameDialectIsIdentity ==
  (transformPc = "transformed" /\ from = to /\ IsSupported(to)) =>
    /\ deepSchema(heap, output[1]) = before
    /\ warnings = <<>>

\* Transform from postgres to postgres has returned the column id INT as id
\* INTEGER.
C4_TypeRewritten ==
  /\ transformPc = "transformed"
  /\ from = "postgres" /\ to = "postgres"
  /\ before.Tables = <<ItemsTable(NewColumn("id", "INT"))>>
  /\ deepSchema(heap, output[1]).Tables = <<ItemsTable(NewColumn("id", "INTEGER"))>>

\* C5: a call of Transform with a target dialect that is not exactly one of
\* postgres, mysql, sqlserver fails and yields no transformed schema.
C5_UnsupportedTargetYieldsNoSchema ==
  (transformPc = "transformed" /\ ~IsSupported(to)) => output = Nil

\* Transform to the target oracle has returned a schema, with the type JSON
\* kept and the default now() of the column at rewritten to the empty string.
C5_UnknownTargetRewritten ==
  /\ transformPc = "transformed"
  /\ to = "oracle"
  /\ output # Nil
  /\ Len(before.Tables) = 1
  /\ before.Tables[1].Columns[1].Default = Some("now()")
  /\ deepSchema(heap, output[1]).Tables[1].Columns[1].Default = Some("")

\* C9: Transform and Diff never mutate their inputs: after Transform has
\* returned, and after Diff has returned, every field of every Table, Column,
\* PrimaryKey, ForeignKey, Index, Constraint and View of the input has the
\* value it had before the call.
C9_InputsNotMutated ==
  transformPc \in {"transformed", "diffed"} =>
    /\ deepSchema(heap, input) = before
    /\ input = storeSchema("in", before)

\* Transform has rewritten the default of a column of a table with a primary
\* key, and Diff of the input and the output has reported the change.
C9_TransformedAndCompared ==
  /\ transformPc = "diffed"
  /\ defaultsOf(input) # {}
  /\ primaryKeysOf(input) # {}
  /\ deepSchema(heap, output[1]) # before
  /\ ~IsEmpty(compared)

\* C10: the Schema returned by Transform shares no mutable structure with the
\* input: a later change in place of a part of the output (a PrimaryKey or its
\* column list, the column list of an index, of a foreign key or of a
\* constraint, a column's default) leaves the input as it was.
C10_OutputChangeLeavesInput ==
  transformPc = "mutated" => deepSchema(heap, input) = before

\* The name of the PrimaryKey of the output was changed, and the PrimaryKey of
\* the input has the new name.
C10_PrimaryKeyShared ==
  /\ transformPc = "mutated"
  /\ Len(before.Tables) = 1
  /\ before.Tables[1].PrimaryKey = Some([Name |-> "pk_items", Columns |-> <<"id">>])
  /\ deepSchema(heap, input).Tables[1].PrimaryKey
       = Some([Name |-> "changed", Columns |-> <<"id">>])

(***************************************************************************)
(* Transform of one column: the schema holds the table items with the      *)
(* column val of one of TypeNames, identity or not, and no default; the    *)
(* source dialect is a supported one and the target a supported one or     *)
(* oracle.                                                                 *)
(***************************************************************************)
TypeNames ==
  { "SERIAL", "BIGSERIAL", "INT", "bigint", "BIGINT", "BIGINT IDENTITY(1,1)",
    "BOOLEAN", "bool", "BIT", "TINYINT(1)",
    "BYTEA", "BLOB", "VARBINARY(MAX)",
    "JSON", "JSONB", "UUID", "uniqueidentifier",
    "VARCHAR(50)", "nvarchar(50)", "CHARACTER VARYING(20)", "VARCHAR", "NVARCHAR(MAX)",
    "TIMESTAMP WITH TIME ZONE", "TIMESTAMPTZ", "DATETIMEOFFSET",
    "TIMESTAMP", "TIMESTAMP WITHOUT TIME ZONE", "TEXT", "DOUBLE PRECISION" }

TypeSchemas ==
  {[EmptySchema EXCEPT
      !.Tables = <<ItemsTable([NewColumn("val", ty) EXCEPT !.IsIdentity = idn])>>] :
     ty \in TypeNames, idn \in BOOLEAN}

\* The caller is about to call Transform for a schema of one column.
InitTypes ==
  /\ from \in {"postgres", "mysql", "sqlserver"}
  /\ to \in {"postgres", "mysql", "sqlserver", "oracle"}
  /\ \E s \in TypeSchemas :
       /\ input = storeSchema("in", s)
       /\ heap = cellsOfSchema("in", s)
       /\ before = s
  /\ output = Nil
  /\ warnings = <<>>
  /\ compared = Nil
  /\ transformPc = "start"
  /\ ParseIdle
  /\ DiffIdle
  /\ MembersIdle

SpecTypes == InitTypes /\ [][TransformCall]_vars

\* Transform has returned for a schema of one table and one column.
columnTransformed ==
  /\ transformPc = "transformed"
  /\ Len(before.Tables) = 1
  /\ Len(before.Tables[1].Columns) = 1
  /\ before.Views = <<>>

columnBefore == before.Tables[1].Columns[1]

typeAfter == output[1].Tables[1].Columns[1].Type

\* The types of the BIGINT family, by their upper-case spelling.
bigintFamily == {"BIGINT", "BIGSERIAL", "BIGINT AUTO_INCREMENT", "BIGINT IDENTITY(1,1)"}

identityTypeOf(target, big) ==
  IF target = "postgres" THEN (IF big THEN "BIGSERIAL" ELSE "SERIAL")
  ELSE IF target = "mysql" THEN (IF big THEN "BIGINT AUTO_INCREMENT" ELSE "INT AUTO_INCREMENT")
  ELSE (IF big THEN "BIGINT IDENTITY(1,1)" ELSE "INT IDENTITY(1,1)")

\* C14: for every identity column Transform sets the type by the target dialect
\* and the integer width only: SERIAL, INT AUTO_INCREMENT or INT IDENTITY(1,1),
\* the big variant for a source type of the BIGINT family, whatever the source
\* dialect, and with no warning from the data-loss check.
C14_IdentityByTargetAndWidth ==
  (columnTransformed /\ columnBefore.IsIdentity /\ IsSupported(to)) =>
    /\ typeAfter = identityTypeOf(to, ToUpper(columnBefore.Type) \in bigintFamily)
    /\ warnings = <<>>

\* The identity column of type SERIAL has become INT AUTO_INCREMENT from
\* postgres to mysql.
C14_SerialToMySQL ==
  /\ columnTransformed
  /\ from = "postgres" /\ to = "mysql"
  /\ columnBefore.IsIdentity
  /\ columnBefore.Type = "SERIAL"
  /\ typeAfter = "INT AUTO_INCREMENT"

\* The type that each target has for the canonical types BOOLEAN, BINARY, JSON
\* and UUID, and for VARCHAR(n).
projectionOf(target, canonical) ==
  IF canonical = "BOOLEAN"
  THEN [postgres |-> "BOOLEAN", mysql |-> "TINYINT(1)", sqlserver |-> "BIT"][target]
  ELSE IF canonical = "BINARY"
  THEN [postgres |-> "BYTEA", mysql |-> "LONGBLOB", sqlserver |-> "VARBINARY(MAX)"][target]
  ELSE IF canonical = "JSON"
  THEN [postgres |-> "JSONB", mysql |-> "JSON", sqlserver |-> "NVARCHAR(MAX)"][target]
  ELSE IF canonical = "UUID"
  THEN [postgres |-> "UUID", mysql |-> "CHAR(36)", sqlserver |-> "UNIQUEIDENTIFIER"][target]
  ELSE IF target = "sqlserver" THEN "N" \o canonical
  ELSE canonical

projected(canonical) ==
  canonical \in {"BOOLEAN", "BINARY", "JSON", "UUID"} \/ HasPrefix(canonical, "VARCHAR(")

\* C15: every column that is not an identity column and whose type normalizes
\* to BOOLEAN, BINARY, JSON, UUID or VARCHAR(n) gets the type that the target
\* has for it; VARCHAR(n) becomes NVARCHAR(n) for sqlserver and stays
\* VARCHAR(n) for postgres and mysql.
C15_CanonicalProjection ==
  (/\ columnTransformed
   /\ ~columnBefore.IsIdentity
   /\ IsSupported(to)
   /\ projected(normalizeType(ToUpper(columnBefore.Type)))) =>
    typeAfter = projectionOf(to, normalizeType(ToUpper(columnBefore.Type)))

\* The column of type bool has become TINYINT(1) from postgres to mysql.
C15_BooleanToMySQL ==
  /\ columnTransformed
  /\ from = "postgres" /\ to = "mysql"
  /\ ~columnBefore.IsIdentity
  /\ columnBefore.Type = "bool"
  /\ typeAfter = "TINYINT(1)"

\* The spellings of the timestamp with a time zone.
timezoneSpellings == {"TIMESTAMP WITH TIME ZONE", "TIMESTAMPTZ", "DATETIMEOFFSET"}

\* C16: every column that is not an identity column and whose type is a
\* timestamp with a time zone becomes TIMESTAMP WITH TIME ZONE for postgres,
\* TIMESTAMP for mysql and DATETIMEOFFSET for sqlserver.
C16_TimezoneProjection ==
  (/\ columnTransformed
   /\ ~columnBefore.IsIdentity
   /\ IsSupported(to)
   /\ ToUpper(columnBefore.Type) \in timezoneSpellings) =>
    typeAfter = [postgres |-> "TIMESTAMP WITH TIME ZONE", mysql |-> "TIMESTAMP",
                 sqlserver |-> "DATETIMEOFFSET"][to]

\* The column of type TIMESTAMPTZ has become DATETIME for mysql.
C16_TimezoneToDatetime ==
  /\ columnTransformed
  /\ to = "mysql"
  /\ ~columnBefore.IsIdentity
  /\ columnBefore.Type = "TIMESTAMPTZ"
  /\ typeAfter = "DATETIME"

\* A warning of the list names the table and the column.
warnsAbout(tableName, colName) ==
  \E i \in 1..Len(warnings) :
    Contains(warnings[i], tableName) /\ Contains(warnings[i], colName)

\* C17: for every column that is not an identity column and whose type is a
\* timestamp with a time zone, in any spelling, Transform to mysql returns the
\* schema with a data-loss warning for that table and column.
C17_DroppedTimezoneWarned ==
  (/\ columnTransformed
   /\ ~columnBefore.IsIdentity
   /\ to = "mysql"
   /\ ToUpper(columnBefore.Type) \in timezoneSpellings) =>
    (output # Nil /\ warnsAbout(before.Tables[1].Name, columnBefore.Name))

\* The column of type TIMESTAMPTZ was transformed to mysql without a warning.
C17_TimezoneDroppedSilently ==
  /\ columnTransformed
  /\ to = "mysql"
  /\ ~columnBefore.IsIdentity
  /\ columnBefore.Type = "TIMESTAMPTZ"
  /\ typeAfter = "DATETIME"
  /\ warnings = <<>>

\* C18: Transform to mysql of a schema with a column of type UUID or
\* UNIQUEIDENTIFIER that is not an identity column returns exactly one
\* warning for it, with the table name, the column name and "no native UUID
\* type" in it, and the type CHAR(36).
C18_UuidToMySQLWarnsOnce ==
  (/\ columnTransformed
   /\ ~columnBefore.IsIdentity
   /\ to = "mysql"
   /\ ToUpper(columnBefore.Type) \in {"UUID", "UNIQUEIDENTIFIER"}) =>
    /\ Len(warnings) = 1
    /\ Contains(warnings[1], before.Tables[1].Name)
    /\ Contains(warnings[1], columnBefore.Name)
    /\ Contains(warnings[1], "no native UUID type")
    /\ typeAfter = "CHAR(36)"

\* The column val of type UUID of the table items has become CHAR(36) for
\* mysql with the one warning.
C18_UuidWarned ==
  /\ columnTransformed
  /\ to = "mysql"
  /\ ~columnBefore.IsIdentity
  /\ columnBefore.Type = "UUID"
  /\ typeAfter = "CHAR(36)"
  /\ warnings = <<"items.val: UUID stored as CHAR(36) - no native UUID type in MySQL">>

(***************************************************************************)
(* The two splitters on short texts.  A text is cut at a set of positions: *)
(* the pieces are the runs between consecutive cuts, and the run after the *)
(* last cut where it is not empty.                                         *)
(***************************************************************************)
MaxTextLen == 5

TextsOver(alphabet) ==
  UNION {{Join(f, "") : f \in [1..n -> alphabet]} : n \in 0..MaxTextLen}

\* The k-th cut in increasing order; 0 for k = 0.
nthCut(cuts, k) ==
  IF k = 0 THEN 0 ELSE CHOOSE x \in cuts : Cardinality({y \in cuts : y <= x}) = k

pieceCount(text, cuts) ==
  IF nthCut(cuts, Cardinality(cuts)) < Len(text)
  THEN Cardinality(cuts) + 1
  ELSE Cardinality(cuts)

pieceEnd(text, cuts, k) ==
  IF k <= Cardinality(cuts) THEN nthCut(cuts, k) - 1 ELSE Len(text)

piecesAt(text, cuts) ==
  [k \in 1..pieceCount(text, cuts) |->
     SubSeq(text, nthCut(cuts, k - 1) + 1, pieceEnd(text, cuts, k))]

\* The quote character that is open after the character ch: q was open before
\* it ("" for none).
quoteAfter(q, ch) ==
  IF q = "" THEN (IF ch \in QuoteChars THEN ch ELSE "")
  ELSE IF ch = q THEN ""
  ELSE q

\* The quote character of the literal that is open after the first i
\* characters of the text, "" outside a literal.
RECURSIVE activeQuote(_, _)
activeQuote(text, i) ==
  IF i = 0 THEN "" ELSE quoteAfter(activeQuote(text, i - 1), At(text, i))

\* The positions of the ";" outside a literal.
statementEnds(text) ==
  {i \in 1..Len(text) : At(text, i) = ";" /\ activeQuote(text, i - 1) = ""}

SplitTexts ==
  TextsOver({"a", ";", "'", "\""})
    \cup {"INSERT INTO t VALUES ('a;b', \"c';d\"); SELECT 1;", "SELECT 'it\"s;'; SELECT 2"}

\* Parse is about to run on a short text.
InitSplit ==
  /\ sql \in SplitTexts
  /\ statements = <<>>
  /\ stmtIdx = 0
  /\ schema = EmptySchema
  /\ parsePc = "start"
  /\ parseErr = Nil
  /\ DiffIdle
  /\ TransformIdle
  /\ MembersIdle

SpecSplit == InitSplit /\ [][ParseSplit]_vars

\* C19: splitStatements ends a statement at a ";" exactly where the scan of the
\* normalized text is outside a single- or double-quoted literal: a ";" between
\* an opening quote and the next occurrence of the same quote character stays
\* in its statement, and the other quote character does not close the literal.
C19_SplitOutsideLiterals ==
  (parsePc # "start" /\ parsePc # "idle") =>
    statements = piecesAt(normalizeSQL(sql), statementEnds(normalizeSQL(sql)))

\* The text '";'; is one statement: the literal holds the other quote
\* character and a ";", and the ";" after it ends the statement.
C19_SemicolonKeptInLiteral ==
  /\ parsePc = "loop"
  /\ sql = "'\";';"
  /\ statements = <<"'\";'">>

\* The paren-depth counter before the character at i.
depthAt(text, i) ==
  Cardinality({j \in 1..(i - 1) : At(text, j) = "("})
    - Cardinality({j \in 1..(i - 1) : At(text, j) = ")"})

\* The positions of the "," at depth 0.
memberEnds(text) ==
  {i \in 1..Len(text) : At(text, i) = "," /\ depthAt(text, i) = 0}

PricedBody == "id INT, price NUMERIC(10,2) DEFAULT 0 NOT NULL, CHECK (price IN (1,2))"

MemberTexts ==
  TextsOver({"a", ",", "(", ")"})
    \cup {PricedBody, "id INT,price NUMERIC(10,2),", "a DECIMAL(5,1), CHECK (a > 0 AND a < 100), b INT"}

\* parseCreateTable is about to call splitColumnDefs on a table body.
InitMembers ==
  /\ body \in MemberTexts
  /\ defs = <<>>
  /\ membersPc = "start"
  /\ ParseIdle
  /\ DiffIdle
  /\ TransformIdle

\* definitions := splitColumnDefs(body)
SplitColumnDefs ==
  /\ membersPc = "start"
  /\ defs' = splitColumnDefs(body)
  /\ membersPc' = "split"
  /\ UNCHANGED <<body, parseVars, diffVars, transformVars>>

SpecMembers == InitMembers /\ [][SplitColumnDefs]_vars

\* The members that hold NUMERIC(10,2) as the second field.
pricedMembers == {k \in 1..Len(defs) : HasPrefix(TrimSpace(defs[k]), "price NUMERIC(10,2)")}

\* C20: splitColumnDefs cuts a table body at a "," exactly where the
\* paren-depth counter is 0, so the members come whole and in source order, a
\* comma inside a type parameter list or a CHECK (...) expression splits
\* nothing, and NUMERIC(10,2) is the one type token of its column.
C20_SplitAtDepthZero ==
  membersPc = "split" =>
    /\ defs = piecesAt(body, memberEnds(body))
    /\ \A k \in pricedMembers : parseColumnDef(TrimSpace(defs[k]))[1].Type = "NUMERIC(10,2)"

\* The body with NUMERIC(10,2) and CHECK (price IN (1,2)) has given its three
\* members.
C20_PricedBodySplit ==
  /\ membersPc = "split"
  /\ body = PricedBody
  /\ defs = <<"id INT", " price NUMERIC(10,2) DEFAULT 0 NOT NULL", " CHECK (price IN (1,2))">>
  /\ parseColumnDef(TrimSpace(defs[2]))[1].Type = "NUMERIC(10,2)"

(***************************************************************************)
(* Diff of two versions of the table users(id, email) that differ in the   *)
(* column id (type, nullable flag, default), in the primary key or in an   *)
(* index or a foreign key.                                                 *)
(***************************************************************************)
IdColumns ==
  {[NewColumn("id", ty) EXCEPT !.Nullable = n, !.Default = d] :
     ty \in {"INT", "int", "INTEGER"}, n \in BOOLEAN,
     d \in {Nil, Some(""), Some("now()"), Some("NOW()")}}

DeepKeys ==
  { Nil,
    Some([Name |-> "pk_users", Columns |-> <<"id", "email">>]),
    Some([Name |-> "users_pkey", Columns |-> <<"id", "email">>]),
    Some([Name |-> "pk_users", Columns |-> <<"email", "id">>]),
    Some([Name |-> "pk_users", Columns |-> <<"id">>]) }

NoMembers == [ForeignKeys |-> <<>>, Indexes |-> <<>>, Constraints |-> <<>>]

EmailIndex(cols, unique) ==
  [NewIndex EXCEPT !.Name = "idx_email", !.Table = "users", !.Columns = cols,
                   !.IsUnique = unique]

TeamKey(name, table, onDelete) ==
  [NewForeignKey EXCEPT !.Name = name, !.Columns = <<"id">>, !.ReferencedTable = table,
                        !.ReferencedCols = <<"id">>, !.OnDelete = onDelete]

DeepMembers ==
  { [NoMembers EXCEPT !.Indexes = <<EmailIndex(<<"email">>, FALSE)>>],
    [NoMembers EXCEPT !.Indexes = <<EmailIndex(<<"email", "id">>, FALSE)>>],
    [NoMembers EXCEPT !.Indexes = <<EmailIndex(<<"email">>, TRUE)>>],
    [NoMembers EXCEPT !.ForeignKeys = <<TeamKey("", "teams", "")>>],
    [NoMembers EXCEPT !.ForeignKeys = <<TeamKey("", "orgs", "")>>],
    [NoMembers EXCEPT !.ForeignKeys = <<TeamKey("", "teams", "CASCADE")>>],
    [NoMembers EXCEPT !.ForeignKeys = <<TeamKey("fk_team", "teams", "")>>] }

DeepTables ==
  {UsersTable(<<c, NewColumn("email", "TEXT")>>, Nil, NoMembers) : c \in IdColumns}
    \cup {UsersTable(UsersIdEmail, pk, NoMembers) : pk \in DeepKeys}
    \cup {UsersTable(UsersIdEmail, Nil, m) : m \in DeepMembers}

DeepSchemas == {[EmptySchema EXCEPT !.Tables = <<t>>] : t \in DeepTables}

\* Diff is called with two versions of the table users.
InitDiffDeep ==
  /\ diffSource \in DeepSchemas
  /\ diffTarget \in DeepSchemas
  /\ changes = Nil
  /\ again = Nil
  /\ reversed = Nil
  /\ diffPc = "start"
  /\ ParseIdle
  /\ TransformIdle
  /\ MembersIdle

SpecDiffDeep == InitDiffDeep /\ [][NextDiff]_vars

\* The records of ModifiedTables for the table named k.
recordsFor(c, k) ==
  {c.ModifiedTables[i] : i \in {j \in 1..Len(c.ModifiedTables) : c.ModifiedTables[j].Name = k}}

\* An index of both tables under one name, or a foreign key of both under one
\* key, with another content on the two sides.
memberModified(source, target) ==
  \/ \E i \in 1..Len(source.Indexes), j \in 1..Len(target.Indexes) :
       /\ source.Indexes[i].Name = target.Indexes[j].Name
       /\ source.Indexes[i] # target.Indexes[j]
  \/ \E i \in 1..Len(source.ForeignKeys), j \in 1..Len(target.ForeignKeys) :
       /\ fkKey(source.ForeignKeys[i]) = fkKey(target.ForeignKeys[j])
       /\ source.ForeignKeys[i] # target.ForeignKeys[j]

\* C21: a table of both schemas with an index under the same name, or a foreign
\* key under the same key (its name, or <cols>_fk when it has none), whose
\* content differs on the two sides is reported in ModifiedTables, not omitted
\* as unchanged.
C21_ModifiedMembersReported ==
  diffPc = "compared" =>
    \A k \in inBoth(diffSource.Tables, diffTarget.Tables, nameOf) :
      memberModified(mapGet(diffSource.Tables, nameOf, k),
                     mapGet(diffTarget.Tables, nameOf, k))
        => recordsFor(changes, k) # {}

\* The index idx_email is on (email) in the source and on (email, id) in the
\* target, and Diff has returned no change at all.
C21_ChangedIndexOmitted ==
  /\ diffPc = "compared"
  /\ diffSource.Tables[1].Indexes = <<EmailIndex(<<"email">>, FALSE)>>
  /\ diffTarget.Tables[1].Indexes = <<EmailIndex(<<"email", "id">>, FALSE)>>
  /\ IsEmpty(changes)

\* The defaults differ: one is absent and the other present, or both are
\* present and differ ignoring case.
defaultsDiffer(a, b) ==
  IF a = Nil \/ b = Nil THEN a # b ELSE ToUpper(a[1]) # ToUpper(b[1])

\* The ColumnChanges reported for the column named n of the table named k.
columnRecords(c, k, n) ==
  UNION {{tc.ModifiedColumns[i] : i \in {j \in 1..Len(tc.ModifiedColumns) :
                                          tc.ModifiedColumns[j].Name = n}} :
           tc \in recordsFor(c, k)}

\* The one ColumnChanges record for s and t has exactly the aspects that differ.
aspectsOf(r, s, t) ==
  /\ r.OldType = (IF ToUpper(s.Type) # ToUpper(t.Type) THEN s.Type ELSE "")
  /\ r.NewType = (IF ToUpper(s.Type) # ToUpper(t.Type) THEN t.Type ELSE "")
  /\ r.NullableChanged = (s.Nullable # t.Nullable)
  /\ r.DefaultChanged = defaultsDiffer(s.Default, t.Default)

columnCompared(c, k, s, t) ==
  IF \/ ToUpper(s.Type) # ToUpper(t.Type)
     \/ s.Nullable # t.Nullable
     \/ defaultsDiffer(s.Default, t.Default)
  THEN /\ Cardinality(columnRecords(c, k, s.Name)) = 1
       /\ \A r \in columnRecords(c, k, s.Name) : aspectsOf(r, s, t)
  ELSE columnRecords(c, k, s.Name) = {}

\* C22: a column of both sides of a common table is in ModifiedColumns exactly
\* when the types differ ignoring case, or the nullable flags differ, or the
\* defaults differ (two absent defaults are equal, an absent and a present one
\* differ, two present ones are compared ignoring case); INT against INTEGER is
\* a change; OldType/NewType, NullableChanged and DefaultChanged are set
\* exactly for the aspects that differ.
C22_ColumnDeepCompare ==
  diffPc = "compared" =>
    \A k \in inBoth(diffSource.Tables, diffTarget.Tables, nameOf) :
      \A n \in inBoth(mapGet(diffSource.Tables, nameOf, k).Columns,
                      mapGet(diffTarget.Tables, nameOf, k).Columns, nameOf) :
        columnCompared(changes, k,
                       mapGet(mapGet(diffSource.Tables, nameOf, k).Columns, nameOf, n),
                       mapGet(mapGet(diffTarget.Tables, nameOf, k).Columns, nameOf, n))

\* id INT with no default against id INTEGER with the empty default: the type
\* and the default are reported, the nullable flag is not.
C22_TypeAndDefaultReported ==
  /\ diffPc = "compared"
  /\ diffSource.Tables[1].Columns[1] = NewColumn("id", "INT")
  /\ diffTarget.Tables[1].Columns[1] = [NewColumn("id", "INTEGER") EXCEPT !.Default = Some("")]
  /\ changes.ModifiedTables[1].ModifiedColumns
       = <<[NewColumnChanges("id") EXCEPT !.OldType = "INT", !.NewType = "INTEGER",
                                          !.DefaultChanged = TRUE,
                                          !.NewDefault = Some("")]>>

\* Both keys are absent, or both are present with the same columns in the
\* same order.
keysAgree(a, b) ==
  IF a = Nil \/ b = Nil THEN a = b ELSE a[1].Columns = b[1].Columns

\* C23: for a table of both schemas PrimaryKeyChanged is false exactly when both
\* sides have no primary key or both have one with the same columns in the
\* same order, whatever the names of the keys; otherwise the table is reported
\* with PrimaryKeyChanged true.
C23_PrimaryKeyChangeDetected ==
  diffPc = "compared" =>
    \A k \in inBoth(diffSource.Tables, diffTarget.Tables, nameOf) :
      IF keysAgree(mapGet(diffSource.Tables, nameOf, k).PrimaryKey,
                   mapGet(diffTarget.Tables, nameOf, k).PrimaryKey)
      THEN \A tc \in recordsFor(changes, k) : ~tc.PrimaryKeyChanged
      ELSE /\ recordsFor(changes, k) # {}
           /\ \A tc \in recordsFor(changes, k) : tc.PrimaryKeyChanged

\* The key on (id, email) against the key on (email, id): the table is
\* reported with PrimaryKeyChanged and nothing else.
C23_ReorderedKeyReported ==
  /\ diffPc = "compared"
  /\ diffSource.Tables[1].PrimaryKey = Some([Name |-> "pk_users", Columns |-> <<"id", "email">>])
  /\ diffTarget.Tables[1].PrimaryKey = Some([Name |-> "pk_users", Columns |-> <<"email", "id">>])
  /\ Len(changes.ModifiedTables) = 1
  /\ changes.ModifiedTables[1].PrimaryKeyChanged
  /\ changes.ModifiedTables[1].ModifiedColumns = <<>>

(***************************************************************************)
(* Parse of documents made of statements of one kind: the statements of a  *)
(* set, up to MaxStatements of them, joined by ";" and a line end.         *)
(***************************************************************************)
DocumentsOf(fragments) ==
  UNION {{Join(d, ";\n") : d \in [1..n -> fragments]} : n \in 1..MaxStatements}

IndexStatements ==
  { "CREATE INDEX idx_email ON users(email)",
    "CREATE UNIQUE INDEX idx_email ON users(email)",
    "create unique index uq ON app.users (email, id DESC)",
    "CREATE INDEX idx_unique_email ON users(email)",
    "CREATE INDEX idx_visits ON unique_visits(id)",
    "CREATE INDEX IF NOT EXISTS idx_code ON codes (uniquecode)" }

\* Parse is about to run on a document of CREATE INDEX statements.
InitParseIndexes ==
  /\ sql \in DocumentsOf(IndexStatements)
  /\ statements = <<>>
  /\ stmtIdx = 0
  /\ schema = EmptySchema
  /\ parsePc = "start"
  /\ parseErr = Nil
  /\ DiffIdle
  /\ TransformIdle
  /\ MembersIdle

SpecParseIndexes == InitParseIndexes /\ [][NextParse]_vars

\* C25: for every CREATE INDEX / CREATE UNIQUE INDEX statement the Index that
\* Parse returns has is_unique = true exactly when the statement carries the
\* keyword UNIQUE (CREATE UNIQUE INDEX), whatever the names of the index, the
\* table and the columns.
C25_UniqueIffKeyword ==
  parsePc = "returned" =>
    /\ Len(schema.Indexes) = Len(statements)
    /\ \A k \in 1..Len(schema.Indexes) :
         schema.Indexes[k].IsUnique
           <=> HasPrefix(ToUpper(TrimSpace(statements[k])), "CREATE UNIQUE INDEX")

\* CREATE INDEX idx_unique_email ON users(email) has given a unique index.
C25_UniqueByName ==
  /\ parsePc = "returned"
  /\ sql = "CREATE INDEX idx_unique_email ON users(email)"
  /\ schema.Indexes = <<[NewIndex EXCEPT !.Name = "idx_unique_email", !.Table = "users",
                                          !.Columns = <<"email">>, !.IsUnique = TRUE]>>

(***************************************************************************)
(* Parse of tables of one column: CREATE TABLE t (<definition>) for the    *)
(* column definitions of a set, each a name, a type and modifiers          *)
(* separated by single spaces.                                             *)
(***************************************************************************)
ColumnDefs ==
  { "id INT",
    "id INT NOT NULL",
    "id int not null unique",
    "id INT PRIMARY KEY AUTO_INCREMENT",
    "id INT IDENTITY(1,1) NOT NULL",
    "id INTEGER primary key autoincrement",
    "code TEXT UNIQUE NOT NULL",
    "email_unique TEXT",
    "serial_no INT",
    "identity_card TEXT NOT NULL" }

TableOf(def) == "CREATE TABLE t (" \o def \o ")"

\* Parse is about to run on a document of tables of one column.
InitParseColumns ==
  /\ sql \in DocumentsOf({TableOf(d) : d \in ColumnDefs})
  /\ statements = <<>>
  /\ stmtIdx = 0
  /\ schema = EmptySchema
  /\ parsePc = "start"
  /\ parseErr = Nil
  /\ DiffIdle
  /\ TransformIdle
  /\ MembersIdle

SpecParseColumns == InitParseColumns /\ [][NextParse]_vars

\* The text of a definition after its first token, and after its first two.
afterName(def) == From(def, Index(def, " ") + 1)

afterType(def) ==
  IF Index(afterName(def), " ") = 0 THEN ""
  ELSE From(afterName(def), Index(afterName(def), " ") + 1)

identityIn(text) ==
  \E kw \in {"SERIAL", "AUTO_INCREMENT", "IDENTITY", "AUTOINCREMENT"} :
    Contains(ToUpper(text), kw)

\* The flags of the column are those of the text after the name and the type:
\* a modifier in that text sets its flag, and a flag that is set has its
\* modifier after the name.
modifiersOf(col, def) ==
  /\ col.Name = SubSeq(def, 1, Index(def, " ") - 1)
  /\ col.Type = SubSeq(afterName(def), 1, Len(afterName(def)) - Len(afterType(def))
                                           - (IF afterType(def) = "" THEN 0 ELSE 1))
  /\ Contains(ToUpper(afterType(def)), "UNIQUE") => col.IsUnique
  /\ col.IsUnique => Contains(ToUpper(afterName(def)), "UNIQUE")
  /\ Contains(ToUpper(afterType(def)), "PRIMARY KEY") => col.IsPrimaryKey
  /\ col.IsPrimaryKey => Contains(ToUpper(afterName(def)), "PRIMARY KEY")
  /\ identityIn(afterType(def)) => col.IsIdentity
  /\ col.IsIdentity => identityIn(afterName(def))
  /\ (Contains(ToUpper(afterType(def)), "NOT NULL")
        \/ Contains(ToUpper(afterType(def)), "PRIMARY KEY")) => ~col.Nullable
  /\ ~col.Nullable => (Contains(ToUpper(afterName(def)), "NOT NULL")
                         \/ Contains(ToUpper(afterName(def)), "PRIMARY KEY"))

\* C26: the first two tokens of a column definition are the name and the type,
\* and NOT NULL, PRIMARY KEY, UNIQUE and the identity family set nullable =
\* false, is-primary-key, is-unique and is-identity exactly when they occur,
\* in any case and order, in the text after those tokens: a flag is not set
\* by the column's name.
C26_ModifiersAfterNameAndType ==
  parsePc = "returned" =>
    /\ Len(schema.Tables) = Len(statements)
    /\ \A k \in 1..Len(schema.Tables) : \A d \in ColumnDefs :
         TrimSpace(statements[k]) = TableOf(d) =>
           /\ Len(schema.Tables[k].Columns) = 1
           /\ modifiersOf(schema.Tables[k].Columns[1], d)

\* The column email_unique TEXT has come back as a unique column.
C26_UniqueByColumnName ==
  /\ parsePc = "returned"
  /\ sql = TableOf("email_unique TEXT")
  /\ schema.Tables[1].Columns = <<[NewColumn("email_unique", "TEXT") EXCEPT !.IsUnique = TRUE]>>

(***************************************************************************)
(* Parse of documents whose statements hold a quoted literal with the      *)
(* opening of a comment in it, or with ordinary characters.  The           *)
(* statements have no comment and no run of spaces.                        *)
(***************************************************************************)
LiteralStatements ==
  { "CREATE TABLE a (note TEXT DEFAULT 'x--y')",
    "CREATE TABLE b (note TEXT DEFAULT 'x/*y')",
    "CREATE VIEW c AS SELECT \"*/\" FROM a",
    "CREATE TABLE d (note TEXT DEFAULT 'x__y')",
    "CREATE TABLE e (id INT)" }

\* Parse is about to run on a document with quoted literals.
InitParseLiterals ==
  /\ sql \in DocumentsOf(LiteralStatements)
  /\ statements = <<>>
  /\ stmtIdx = 0
  /\ schema = EmptySchema
  /\ parsePc = "start"
  /\ parseErr = Nil
  /\ DiffIdle
  /\ TransformIdle
  /\ MembersIdle

SpecParseLiterals == InitParseLiterals /\ [][NextParse]_vars

\* The statements are those of the list d, each with its text.
statementsAre(d) ==
  /\ Len(statements) = Len(d)
  /\ \A k \in 1..Len(d) : TrimSpace(statements[k]) = d[k]

\* C30: the normalization before the split removes comments outside quoted
\* literals only: a literal that holds -- or /* keeps its closing quote, and
\* the statements Parse goes through are in number and in text those of the
\* document, as for a literal of ordinary characters.
C30_LiteralsKeptByNormalization ==
  (parsePc # "start" /\ parsePc # "idle") =>
    \A n \in 1..MaxStatements : \A d \in [1..n -> LiteralStatements] :
      sql = Join(d, ";\n") => statementsAre(d)

\* The statement after the literal 'x--y' is merged into the statement that
\* holds the literal: Parse has gone through one statement and has returned
\* one table.
C30_StatementsMerged ==
  /\ parsePc = "returned"
  /\ sql = "CREATE TABLE a (note TEXT DEFAULT 'x--y');\nCREATE TABLE e (id INT)"
  /\ statements = <<"CREATE TABLE a (note TEXT DEFAULT 'x CREATE TABLE e (id INT)">>
  /\ Len(schema.Tables) = 1

(***************************************************************************)
(* Transform of the schema that Transform returned, to the same target:    *)
(* the caller passes the output of the first call to a second one.         *)
(***************************************************************************)
\* output, warnings = Transform(output, to, to); before is the schema that the
\* second call was given.
TransformAgain ==
  /\ transformPc = "transformed"
  /\ \E r \in {Transform(to, to, output[1], heap)} :
       /\ output' = Some(r.schema)
       /\ warnings' = r.warnings
       /\ heap' = r.cells @@ heap
  /\ before' = deepSchema(heap, output[1])
  /\ from' = to
  /\ transformPc' = "retransformed"
  /\ UNCHANGED <<to, input, compared, parseVars, diffVars, memberVars>>

SpecRetransform == InitTypes /\ [][TransformCall \/ TransformAgain]_vars

\* C27: mapping a type to a supported target and mapping the result to the same
\* target again gives the type of the first mapping: Transform of a
\* transformed schema to the same target changes the type of no column that
\* is not an identity column.
C27_ProjectionIsFixedPoint ==
  (/\ transformPc = "retransformed"
   /\ IsSupported(to)
   /\ Len(before.Tables) = 1
   /\ ~before.Tables[1].Columns[1].IsIdentity) =>
    output[1].Tables[1].Columns[1].Type = before.Tables[1].Columns[1].Type

\* The column that the first call to sqlserver returned as FLOAT has become
\* REAL in the second call.
C27_FloatBecomesReal ==
  /\ transformPc = "retransformed"
  /\ to = "sqlserver"
  /\ ~before.Tables[1].Columns[1].IsIdentity
  /\ before.Tables[1].Columns[1].Type = "FLOAT"
  /\ output[1].Tables[1].Columns[1].Type = "REAL"

\* The two columns differ in nothing but the type and the value of a default
\* that both have.
sameColumnShape(a, b) ==
  /\ a.Name = b.Name
  /\ a.Nullable = b.Nullable
  /\ a.IsPrimaryKey = b.IsPrimaryKey
  /\ a.IsUnique = b.IsUnique
  /\ a.IsIdentity = b.IsIdentity
  /\ a.Comment = b.Comment
  /\ (a.Default = Nil) = (b.Default = Nil)

\* The two indexes differ in nothing but the method.
sameIndexShape(a, b) == [a EXCEPT !.Type = ""] = [b EXCEPT !.Type = ""]

sameIndexesShape(a, b) ==
  /\ Len(a) = Len(b)
  /\ \A i \in 1..Len(a) : sameIndexShape(a[i], b[i])

sameTableShape(a, b) ==
  /\ a.Name = b.Name
  /\ a.Schema = b.Schema
  /\ Len(a.Columns) = Len(b.Columns)
  /\ \A j \in 1..Len(a.Columns) : sameColumnShape(a.Columns[j], b.Columns[j])
  /\ a.PrimaryKey = b.PrimaryKey
  /\ a.ForeignKeys = b.ForeignKeys
  /\ a.Constraints = b.Constraints
  /\ sameIndexesShape(a.Indexes, b.Indexes)

sameSchemaShape(a, b) ==
  /\ Len(a.Tables) = Len(b.Tables)
  /\ \A i \in 1..Len(a.Tables) : sameTableShape(a.Tables[i], b.Tables[i])
  /\ sameIndexesShape(a.Indexes, b.Indexes)
  /\ a.Views = b.Views

namesIn(xs) == {xs[i].Name : i \in 1..Len(xs)}

disjoint3(a, b, c) == a \cap b = {} /\ a \cap c = {} /\ b \cap c = {}

\* The columns of one TableChanges record are partitioned, against the two
\* versions s and t of the table.
columnsPartitioned(tc, s, t) ==
  /\ disjoint3(namesIn(tc.AddedColumns), namesIn(tc.RemovedColumns),
               namesIn(tc.ModifiedColumns))
  /\ namesIn(tc.AddedColumns) \cap namesIn(s.Columns) = {}
  /\ namesIn(tc.RemovedColumns) \cap namesIn(t.Columns) = {}
  /\ namesIn(tc.ModifiedColumns) \subseteq namesIn(s.Columns) \cap namesIn(t.Columns)

namesPartitioned(c, a, b) ==
  /\ disjoint3(namesIn(c.AddedTables), namesIn(c.RemovedTables), namesIn(c.ModifiedTables))
  /\ disjoint3(namesIn(c.AddedViews), namesIn(c.RemovedViews), namesIn(c.ModifiedViews))
  /\ namesIn(c.AddedIndexes) \cap namesIn(c.RemovedIndexes) = {}
  /\ namesIn(c.AddedTables) \cap namesIn(a.Tables) = {}
  /\ namesIn(c.RemovedTables) \cap namesIn(b.Tables) = {}
  /\ namesIn(c.ModifiedTables) \subseteq namesIn(a.Tables) \cap namesIn(b.Tables)
  /\ namesIn(c.AddedViews) \cap namesIn(a.Views) = {}
  /\ namesIn(c.RemovedViews) \cap namesIn(b.Views) = {}
  /\ namesIn(c.ModifiedViews) \subseteq namesIn(a.Views) \cap namesIn(b.Views)
  /\ namesIn(c.AddedIndexes) \cap namesIn(a.Indexes) = {}
  /\ namesIn(c.RemovedIndexes) \cap namesIn(b.Indexes) = {}
  /\ \A i \in 1..Len(c.ModifiedTables) :
       columnsPartitioned(c.ModifiedTables[i],
                          mapGet(a.Tables, nameOf, c.ModifiedTables[i].Name),
                          mapGet(b.Tables, nameOf, c.ModifiedTables[i].Name))

\* C29: in every Changes of Diff(A, B) no table name is in more than one of
\* AddedTables, RemovedTables and ModifiedTables, no view name in more than
\* one of the three lists of views, no standalone index name in both lists of
\* indexes, and in one TableChanges no column name in more than one of its
\* three lists of columns; an added name is absent from A, a removed name is
\* absent from B, and a modified name is in both.
C29_NamesPartitioned ==
  diffPc = "compared" => namesPartitioned(changes, diffSource, diffTarget)

\* Diff has reported an added table, a modified table with added and modified
\* columns, and a modified view.
C29_AddedAndModified ==
  /\ diffPc = "compared"
  /\ namesIn(changes.AddedTables) = {"teams"}
  /\ namesIn(changes.ModifiedTables) = {"users"}
  /\ Len(changes.ModifiedTables[1].AddedColumns) > 0
  /\ Len(changes.ModifiedTables[1].ModifiedColumns) > 0
  /\ Len(changes.ModifiedViews) > 0

=============================================================================
